---- MODULE Spec2Model ----
(***************************************************************************)
(* A model of the glox tree-walking interpreter: Scanner, Parser,         *)
(* Resolver, Interpreter and the Lox driver (file and REPL mode).         *)
(*                                                                         *)
(* Go values are modelled as records.  A Go struct used as a map key      *)
(* (the Expr keys of Interpreter.localDistance) is modelled by the record *)
(* of its fields, so that two nodes with equal contents are the same key, *)
(* as in Go.  Pointers to environments and instances are heap indices.    *)
(* float64 numbers are modelled as exact decimals [n, e] = n / 10^e.      *)
(***************************************************************************)
EXTENDS Integers, Sequences, FiniteSets, TLC

\* A local name for a value: With(e, LAMBDA x : body) is body with x
\* standing for e, the ":=" of the Go code
With(v, F(_)) == F(v)

(***************************************************************************)
(* Scanner (src/scanner.go)                                                *)
(***************************************************************************)

\* rune 0, returned by peek/peekNext at the end of the source
NUL == ""

Digits == {"0", "1", "2", "3", "4", "5", "6", "7", "8", "9"}

DigitVal == [c \in Digits |->
               CASE c = "0" -> 0 [] c = "1" -> 1 [] c = "2" -> 2 [] c = "3" -> 3
                 [] c = "4" -> 4 [] c = "5" -> 5 [] c = "6" -> 6 [] c = "7" -> 7
                 [] c = "8" -> 8 [] c = "9" -> 9]

\* unicode.IsLetter restricted to the ASCII letters ('_' is not a letter)
Letters == {"a", "b", "c", "d", "e", "f", "g", "h", "i", "j", "k", "l", "m",
            "n", "o", "p", "q", "r", "s", "t", "u", "v", "w", "x", "y", "z",
            "A", "B", "C", "D", "E", "F", "G", "H", "I", "J", "K", "L", "M",
            "N", "O", "P", "Q", "R", "S", "T", "U", "V", "W", "X", "Y", "Z"}

identifierToTokenType ==
    [and |-> "AND", class |-> "CLASS", else |-> "ELSE", false |-> "FALSE",
     fun |-> "FUN", for |-> "FOR", if |-> "IF", nil |-> "NIL", or |-> "OR",
     print |-> "PRINT", return |-> "RETURN", super |-> "SUPER",
     this |-> "THIS", true |-> "TRUE", var |-> "VAR", while |-> "WHILE"]

\* Go values held in Token.Literal and Literal.Value
NilVal == [t |-> "nil"]
BoolVal(b) == [t |-> "bool", b |-> b]
StrVal(s) == [t |-> "str", s |-> s]

RECURSIVE Pow10(_)
Pow10(k) == IF k = 0 THEN 1 ELSE 10 * Pow10(k - 1)

\* a float64 as the exact decimal n / 10^e, without trailing zero digits
RECURSIVE NumVal(_, _)
NumVal(n, e) == IF e > 0 /\ n % 10 = 0 THEN NumVal(n \div 10, e - 1)
                ELSE [t |-> "num", n |-> n, e |-> e]

Token(typ, lexeme, literal, line) ==
    [type |-> typ, lexeme |-> lexeme, literal |-> literal, line |-> line]

\* string(s.srcRunes[from:to]) with Go's 0-based half-open bounds
RECURSIVE Slice(_, _, _)
Slice(src, from, to) ==
    IF from >= to THEN "" ELSE src[from + 1] \o Slice(src, from + 1, to)

ScanIsAtEnd(src, current) == current >= Len(src)

ScanPeek(src, current) ==
    IF ScanIsAtEnd(src, current) THEN NUL ELSE src[current + 1]

ScanPeekNext(src, current) ==
    IF current + 1 >= Len(src) THEN NUL ELSE src[current + 2]

\* the Scanner right after "*s = Scanner{}; s.line = 1".  panic is the text
\* of the string the scanner panicked with, "none" when it has not, and
\* panicLines the line numbers formatted into that string; ends is not part
\* of the program: the value of current when each token was added
NewScanner ==
    [start |-> 0, current |-> 0, line |-> 1, Tokens |-> <<>>, panic |-> "none",
     panicLines |-> {}, ends |-> <<>>]

addToken(src, s, typ, literal) ==
    [s EXCEPT !.Tokens =
        Append(@, Token(typ, Slice(src, s.start, s.current), literal, s.line)),
              !.ends = Append(@, s.current)]

\* matchNext followed by the choice between the two token types
TwoChar(src, s, expected, ifMatch, ifNot) ==
    IF ~ScanIsAtEnd(src, s.current) /\ src[s.current + 1] = expected
    THEN addToken(src, [s EXCEPT !.current = @ + 1], ifMatch, NilVal)
    ELSE addToken(src, s, ifNot, NilVal)

\* the loop "for s.peek() != '\n' && !s.isAtEnd() { s.advance() }"
RECURSIVE SkipComment(_, _)
SkipComment(src, current) ==
    IF ScanPeek(src, current) # "\n" /\ ~ScanIsAtEnd(src, current)
    THEN SkipComment(src, current + 1) ELSE current

\* a scanString that does not count the lines of the string
countLineNever(src, s) == s.line

\* "if s.peek() == '\n' { s.line++ }" of scanString: the line afterwards
countLine(src, s) ==
    IF ScanPeek(src, s.current) = "\n" THEN s.line + 1 ELSE s.line

\* the loop of scanString: the scanner with current and line advanced
RECURSIVE StringBody(_, _)
StringBody(src, s) ==
    IF ScanPeek(src, s.current) # "\"" /\ ~ScanIsAtEnd(src, s.current)
    THEN StringBody(src, [s EXCEPT !.current = @ + 1,
                                   !.line = countLine(src, s)])
    ELSE s

scanString(src, s0) ==
    With(StringBody(src, s0), LAMBDA s :
    IF ScanIsAtEnd(src, s.current)
    THEN [s EXCEPT !.panic = "Unterminated string starting on line",
                   !.panicLines = {s.line}]
    ELSE With([s EXCEPT !.current = @ + 1], LAMBDA s1 :
         addToken(src, s1, "STRING",
                  StrVal(Slice(src, s1.start + 1, s1.current - 1)))))

RECURSIVE SkipDigits(_, _)
SkipDigits(src, current) ==
    IF ScanPeek(src, current) \in Digits THEN SkipDigits(src, current + 1)
    ELSE current

\* the digits src[from..to) read as a decimal integer
RECURSIVE DigitsValue(_, _, _)
DigitsValue(src, from, to) ==
    IF from >= to THEN 0
    ELSE DigitsValue(src, from, to - 1) * 10 + DigitVal[src[to]]

scanNumber(src, s) ==
    With(SkipDigits(src, s.current), LAMBDA intEnd :
        With(ScanPeek(src, intEnd) = "."
                   /\ ScanPeekNext(src, intEnd) \in Digits, LAMBDA hasFrac :
        With(IF hasFrac THEN SkipDigits(src, intEnd + 1) ELSE intEnd, LAMBDA fracEnd :
        With(IF hasFrac THEN fracEnd - (intEnd + 1) ELSE 0, LAMBDA nFrac :
        With(NumVal(DigitsValue(src, s.start, intEnd) * Pow10(nFrac)
                          + (IF hasFrac
                             THEN DigitsValue(src, intEnd + 1, fracEnd)
                             ELSE 0), nFrac), LAMBDA literal :
    addToken(src, [s EXCEPT !.current = fracEnd], "NUMBER", literal))))))

RECURSIVE SkipAlnum(_, _)
SkipAlnum(src, current) ==
    IF ScanPeek(src, current) \in Letters \cup Digits
    THEN SkipAlnum(src, current + 1) ELSE current

scanIdentifier(src, s) ==
    With([s EXCEPT !.current = SkipAlnum(src, s.current)], LAMBDA s1 :
        With(Slice(src, s1.start, s1.current), LAMBDA lexeme :
        With(IF lexeme \in DOMAIN identifierToTokenType
                     THEN identifierToTokenType[lexeme] ELSE "IDENTIFIER", LAMBDA tokenType :
    addToken(src, s1, tokenType, NilVal))))

SingleCharType ==
    ("(" :> "LEFT_PAREN") @@ (")" :> "RIGHT_PAREN") @@ ("{" :> "LEFT_BRACE")
    @@ ("}" :> "RIGHT_BRACE") @@ ("," :> "COMMA") @@ ("." :> "DOT")
    @@ ("-" :> "MINUS") @@ ("+" :> "PLUS") @@ (";" :> "SEMICOLON")
    @@ ("*" :> "STAR")

\* scanToken, called with s.start = s.current
scanToken(src, s0) ==
    With(src[s0.current + 1], LAMBDA r :
        With([s0 EXCEPT !.current = @ + 1], LAMBDA s :
    CASE r \in DOMAIN SingleCharType ->
                addToken(src, s, SingleCharType[r], NilVal)
         [] r = "!" -> TwoChar(src, s, "=", "BANG_EQUAL", "BANG")
         [] r = "=" -> TwoChar(src, s, "=", "EQUAL_EQUAL", "EQUAL")
         [] r = "<" -> TwoChar(src, s, "=", "LESS_EQUAL", "LESS")
         [] r = ">" -> TwoChar(src, s, "=", "GREATER_EQUAL", "GREATER")
         [] r = "/" ->
                IF ~ScanIsAtEnd(src, s.current) /\ src[s.current + 1] = "/"
                THEN [s EXCEPT !.current = SkipComment(src, s.current + 1)]
                ELSE addToken(src, s, "SLASH", NilVal)
         [] r \in {" ", "\r", "\t"} -> s
         [] r = "\n" -> [s EXCEPT !.line = @ + 1]
         [] r = "\"" -> scanString(src, s)
         [] OTHER ->
                IF r \in Digits THEN scanNumber(src, s)
                ELSE IF r \in Letters THEN scanIdentifier(src, s)
                ELSE [s EXCEPT !.panic = "unexpected character"]))

\* one iteration of the loop of ScanTokens; the scanner stays as it is once
\* the loop has ended
ScanStep(src, s) ==
    IF s.panic # "none" \/ ScanIsAtEnd(src, s.current) THEN s
    ELSE scanToken(src, [s EXCEPT !.start = s.current])

\* n iterations of the loop of ScanTokens
RECURSIVE ScanLoop(_, _, _)
ScanLoop(src, s, n) ==
    IF n <= 0 \/ s.panic # "none" THEN s
    ELSE IF n = 1 THEN ScanStep(src, s)
    ELSE ScanLoop(src, ScanLoop(src, s, n \div 2), n - (n \div 2))

\* ScanTokens: [Tokens, panic]; a panic of the scanner is not recovered.
\* Every iteration consumes a character, so Len(src) iterations end the loop
ScanTokens(src) == ScanLoop(src, NewScanner, Len(src))

(***************************************************************************)
(* AST nodes (src/unnamed/part_001, src/stmt.go).  A nil Expr or Stmt is   *)
(* NilNode.                                                                *)
(***************************************************************************)

NilNode == [k |-> "nil"]

Literal(value) == [k |-> "Literal", Value |-> value]
Variable(name, unique) == [k |-> "Variable", Name |-> name, Unique |-> unique]
Assign(name, value) == [k |-> "Assign", Name |-> name, Value |-> value]
Binary(left, operator, right) ==
    [k |-> "Binary", Left |-> left, Operator |-> operator, Right |-> right]
Logical(left, operator, right) ==
    [k |-> "Logical", Left |-> left, Operator |-> operator, Right |-> right]
Unary(operator, right) == [k |-> "Unary", Operator |-> operator, Right |-> right]
Call(callee, paren, args) ==
    [k |-> "Call", Callee |-> callee, Paren |-> paren, Args |-> args]
Get(object, name) == [k |-> "Get", Object |-> object, Name |-> name]
Set(object, name, value) ==
    [k |-> "Set", Object |-> object, Name |-> name, Value |-> value]
Grouping(expression) == [k |-> "Grouping", Expression |-> expression]
Super(keyword, method) == [k |-> "Super", Keyword |-> keyword, Method |-> method]
This(keyword) == [k |-> "This", Keyword |-> keyword]

ExprStmt(expression) == [k |-> "ExprStmt", Expression |-> expression]
PrintStmt(expression) == [k |-> "PrintStmt", Expression |-> expression]
VariableStmt(name, initializer) ==
    [k |-> "VariableStmt", Name |-> name, Initializer |-> initializer]
BlockStmt(statements) == [k |-> "BlockStmt", Statements |-> statements]
IfStmt(condition, then, else) ==
    [k |-> "IfStmt", Condition |-> condition, Then |-> then, Else |-> else]
WhileStmt(condition, body) ==
    [k |-> "WhileStmt", Condition |-> condition, Body |-> body]
FunctionStmt(name, params, body) ==
    [k |-> "FunctionStmt", Name |-> name, Params |-> params, Body |-> body]
ReturnStmt(keyword, value) ==
    [k |-> "ReturnStmt", Keyword |-> keyword, Value |-> value]
ClassStmt(name, superclass, methods) ==
    [k |-> "ClassStmt", Name |-> name, Superclass |-> superclass,
     Methods |-> methods]

(***************************************************************************)
(* Parser (src/parser.go).  Every parsing function takes the parser p and  *)
(* yields [p, v]: the parser afterwards and the function's result.  A      *)
(* panic is p.err; once it is set the callers pass it on unchanged, as the *)
(* unwinding does.                                                         *)
(***************************************************************************)

NoErr == [kind |-> "none"]

\* panic(parseError{line, msg})
parseError(line, msg) == [kind |-> "parseError", line |-> line, msg |-> msg]

\* a panic of the Go runtime (index out of range, nil dereference, failed
\* type assertion, unhashable map key)
GoPanic(msg) == [kind |-> "panic", msg |-> msg]

NewParser(tokens) ==
    [Tokens |-> tokens, current |-> 0, uniqueVarReferenceCounter |-> 0,
     err |-> NoErr, history |-> <<>>]

\* the result of a parsing function; failed says that it panicked
Ret(p, v) == [p |-> p, v |-> v, failed |-> p.err.kind # "none"]

isAtEnd(p) == p.current >= Len(p.Tokens)

peek(p) == p.Tokens[p.current + 1]

check(p, typ) == ~isAtEnd(p) /\ peek(p).type = typ

\* match(types...) is true exactly when checkAny holds, and then advances
checkAny(p, types) == ~isAtEnd(p) /\ peek(p).type \in types

advance(p) == IF ~isAtEnd(p) THEN [p EXCEPT !.current = @ + 1] ELSE p

\* p.parseError(p.previous().Line, msg): previous() indexes Tokens[current-1]
\* and panics in the Go runtime when there is no previous token
parseErrorAtPrevious(p, msg) ==
    IF p.current - 1 \in 0..(Len(p.Tokens) - 1)
    THEN [p EXCEPT !.err = parseError(p.Tokens[p.current].line, msg)]
    ELSE [p EXCEPT !.err = GoPanic("index out of range")]

consume(p, typ, errMsg) ==
    IF check(p, typ) THEN Ret(advance(p), peek(p))
    ELSE Ret(parseErrorAtPrevious(p, errMsg), NilNode)

nextUniqueVarRef(p) ==
    Ret([p EXCEPT !.uniqueVarReferenceCounter = @ + 1],
        p.uniqueVarReferenceCounter)

\* the statements that follow a call which returned r, run as K(parser,
\* value): nothing follows a panic
Then(r, K(_, _)) == IF r.failed THEN r ELSE K(r.p, r.v)

RECURSIVE declaration(_), classDeclaration(_), methodsLoop(_, _)
RECURSIVE funDeclaration(_, _), paramsLoop(_, _), varDeclaration(_)
RECURSIVE statement(_), forStatement(_), forClauses(_), ifStatement(_)
RECURSIVE parenCondition(_, _, _), printStatement(_), returnStatement(_)
RECURSIVE whileStatement(_), block(_), blockLoop(_, _)
RECURSIVE expressionStatement(_), expression(_), assignment(_)
RECURSIVE or(_), orLoop(_, _), and(_), binaryLoop(_, _, _)
RECURSIVE binaryNext(_, _), binaryExpr(_, _)
RECURSIVE unary(_), call(_), callLoop(_, _)
RECURSIVE finishCall(_, _), argsLoop(_, _), primary(_)

declaration(p) ==
    CASE check(p, "CLASS") -> classDeclaration(advance(p))
      [] check(p, "FUN") -> funDeclaration(advance(p), "function")
      [] check(p, "VAR") -> varDeclaration(advance(p))
      [] OTHER -> statement(p)

\* the loop collecting the methods of a class body
methodsLoop(p, methods) ==
    IF ~check(p, "RIGHT_BRACE") /\ p.current < Len(p.Tokens)
    THEN Then(funDeclaration(p, "method"), LAMBDA q, method :
              methodsLoop(q, Append(methods, method)))
    ELSE Ret(p, methods)

\* "superclass = &Variable{Name: p.previous(), Unique: p.nextUniqueVarRef()}"
\* of classDeclaration, entered right after match(LESS)
superclassName(p) ==
    Then(consume(p, "IDENTIFIER", "Expect superclass name after '<'."),
         LAMBDA q, name :
    Then(nextUniqueVarRef(q), LAMBDA q2, unique :
    Ret(q2, Variable(name, unique))))

\* classDeclaration up to the '{' of the class body
classHeader(p) ==
    Then(consume(p, "IDENTIFIER", "Expect class name."), LAMBDA q, name :
    Then(IF check(q, "LESS") THEN superclassName(advance(q))
         ELSE Ret(q, NilNode), LAMBDA q2, superclass :
    Then(consume(q2, "LEFT_BRACE", "Expect '{' before class body."),
         LAMBDA q3, brace :
    Ret(q3, [name |-> name, superclass |-> superclass]))))

classDeclaration(p) ==
    Then(classHeader(p), LAMBDA q, header :
    Then(methodsLoop(q, <<>>), LAMBDA q2, methods :
    Then(consume(q2, "RIGHT_BRACE", "Expect '}' after class body."),
         LAMBDA q3, brace :
    Ret(q3, ClassStmt(header.name, header.superclass, methods)))))

\* the loop collecting the parameter names, entered when the next token is
\* not ')'
paramsLoop(p, params) ==
    Then(consume(p, "IDENTIFIER", "Expect parameter name"), LAMBDA q, param :
    IF check(q, "COMMA") THEN paramsLoop(advance(q), Append(params, param))
    ELSE Ret(q, Append(params, param)))

\* funDeclaration up to the '{' of the body
funHeader(p, kind) ==
    Then(consume(p, "IDENTIFIER", "Expect " \o kind \o " name."),
         LAMBDA q, name :
    Then(consume(q, "LEFT_PAREN", "Expect '(' after " \o kind \o " name."),
         LAMBDA q2, open :
    Then(IF ~check(q2, "RIGHT_PAREN") THEN paramsLoop(q2, <<>>)
         ELSE Ret(q2, <<>>), LAMBDA q3, params :
    Then(consume(q3, "RIGHT_PAREN", "Expect ')' after parameters."),
         LAMBDA q4, close :
    Then(consume(q4, "LEFT_BRACE", "Expect '{' before " \o kind \o " body."),
         LAMBDA q5, brace :
    Ret(q5, [name |-> name, params |-> params]))))))

funDeclaration(p, kind) ==
    Then(funHeader(p, kind), LAMBDA q, header :
    Then(block(q), LAMBDA q2, body :
    Ret(q2, FunctionStmt(header.name, header.params, body))))

varDeclaration(p) ==
    Then(consume(p, "IDENTIFIER", "Expect variable name."), LAMBDA q, name :
    Then(IF check(q, "EQUAL") THEN expression(advance(q))
         ELSE Ret(q, NilNode), LAMBDA q2, initializer :
    Then(consume(q2, "SEMICOLON", "Expect ';' after variable declaration."),
         LAMBDA q3, semi :
    Ret(q3, VariableStmt(name, initializer)))))

statement(p) ==
    CASE check(p, "FOR") -> forStatement(advance(p))
      [] check(p, "IF") -> ifStatement(advance(p))
      [] check(p, "PRINT") -> printStatement(advance(p))
      [] check(p, "RETURN") -> returnStatement(advance(p))
      [] check(p, "WHILE") -> whileStatement(advance(p))
      [] check(p, "LEFT_BRACE") ->
            Then(block(advance(p)), LAMBDA q, stmts : Ret(q, BlockStmt(stmts)))
      [] OTHER -> expressionStatement(p)

\* forStatement up to the ')' of its clauses
forClauses(p) ==
    Then(consume(p, "LEFT_PAREN", "Expect '(' after 'for'."), LAMBDA q, open :
    Then(IF check(q, "SEMICOLON") THEN Ret(advance(q), NilNode)
         ELSE IF check(q, "VAR") THEN varDeclaration(advance(q))
         ELSE expressionStatement(q), LAMBDA q2, initializer :
    Then(IF ~check(q2, "SEMICOLON") THEN expression(q2)
         ELSE Ret(q2, NilNode), LAMBDA q3, condition :
    Then(consume(q3, "SEMICOLON", "Expect ';' after loop condition."),
         LAMBDA q4, semi :
    Then(IF ~check(q4, "RIGHT_PAREN") THEN expression(q4)
         ELSE Ret(q4, NilNode), LAMBDA q5, increment :
    Then(consume(q5, "RIGHT_PAREN", "Expect ')' after for clause."),
         LAMBDA q6, close :
    Ret(q6, [initializer |-> initializer, condition |-> condition,
             increment |-> increment])))))))

\* a for loop that always gets the outer block and the block of the body
forLoopBlocks(clauses, body) ==
    BlockStmt(<<clauses.initializer,
                WhileStmt(IF clauses.condition = NilNode
                          THEN Literal(BoolVal(TRUE)) ELSE clauses.condition,
                          BlockStmt(<<body, ExprStmt(clauses.increment)>>))>>)

\* the statement a for loop stands for: the body and the increment in a
\* block, in a while loop, in a block after the initializer
forLoop(clauses, body) ==
    With(WhileStmt(IF clauses.condition = NilNode THEN Literal(BoolVal(TRUE))
                   ELSE clauses.condition,
                   IF clauses.increment # NilNode
                   THEN BlockStmt(<<body, ExprStmt(clauses.increment)>>)
                   ELSE body), LAMBDA loop :
    IF clauses.initializer # NilNode
    THEN BlockStmt(<<clauses.initializer, loop>>)
    ELSE loop)

\* the parser with a record added to its history, which is not part of the
\* program: the record of the for loops and assignments parsed, kept to
\* state properties about them
PLog(p, entry) == [p EXCEPT !.history = Append(@, entry)]

\* the record of one forStatement that returned: the clauses and the body
\* it parsed (NilNode for a clause that is omitted) and the statement it
\* returned
ForRecord(clauses, body, stmt) ==
    [op |-> "forStatement", initializer |-> clauses.initializer,
     condition |-> clauses.condition, increment |-> clauses.increment,
     body |-> body, stmt |-> stmt]

forStatement(p) ==
    Then(forClauses(p), LAMBDA q, clauses :
    Then(statement(q), LAMBDA q2, body :
    Ret(PLog(q2, ForRecord(clauses, body, forLoop(clauses, body))),
        forLoop(clauses, body))))

\* "consume(LEFT_PAREN, ...); condition := expression();
\* consume(RIGHT_PAREN, ...)" of ifStatement and whileStatement
parenCondition(p, openMsg, closeMsg) ==
    Then(consume(p, "LEFT_PAREN", openMsg), LAMBDA q, open :
    Then(expression(q), LAMBDA q2, condition :
    Then(consume(q2, "RIGHT_PAREN", closeMsg), LAMBDA q3, close :
    Ret(q3, condition))))

ifStatement(p) ==
    Then(parenCondition(p, "Expect '(' after 'if'.",
                        "Expect ')' after if condition."),
         LAMBDA q, condition :
    Then(statement(q), LAMBDA q2, thenBranch :
    Then(IF check(q2, "ELSE") THEN statement(advance(q2))
         ELSE Ret(q2, NilNode), LAMBDA q3, elseBranch :
    Ret(q3, IfStmt(condition, thenBranch, elseBranch)))))

printStatement(p) ==
    Then(expression(p), LAMBDA q, value :
    Then(consume(q, "SEMICOLON", "Expect ';' after value."), LAMBDA q2, semi :
    Ret(q2, PrintStmt(value))))

\* entered right after match(RETURN), so previous() is the keyword
returnStatement(p) ==
    Then(IF ~check(p, "SEMICOLON") THEN expression(p) ELSE Ret(p, NilNode),
         LAMBDA q, value :
    Then(consume(q, "SEMICOLON", "Expect ';' after return statement."),
         LAMBDA q2, semi :
    Ret(q2, ReturnStmt(p.Tokens[p.current], value))))

whileStatement(p) ==
    Then(parenCondition(p, "Expect '(' after 'while'.",
                        "Expect ')' after while condition."),
         LAMBDA q, condition :
    Then(statement(q), LAMBDA q2, body : Ret(q2, WhileStmt(condition, body))))

blockLoop(p, stmts) ==
    IF ~check(p, "RIGHT_BRACE") /\ ~isAtEnd(p)
    THEN Then(declaration(p), LAMBDA q, stmt :
              blockLoop(q, Append(stmts, stmt)))
    ELSE Ret(p, stmts)

block(p) ==
    Then(blockLoop(p, <<>>), LAMBDA q, stmts :
    Then(consume(q, "RIGHT_BRACE", "Expect '}' after block."),
         LAMBDA q2, brace :
    Ret(q2, stmts)))

expressionStatement(p) ==
    Then(expression(p), LAMBDA q, expr :
    Then(consume(q, "SEMICOLON", "Expect ';' after expression."),
         LAMBDA q2, semi :
    Ret(q2, ExprStmt(expr))))

expression(p) == assignment(p)

\* the record of one assignment() that matched "=": the "=" token, the
\* expression parsed before it, the one parsed after it, and the
\* expression returned with NoErr or NilNode with the parseError
AssignmentRecord(equals, lValue, rValue, r) ==
    [op |-> "assignment", equals |-> equals, lValue |-> lValue,
     rValue |-> rValue, result |-> r.v, err |-> r.p.err]

assignment(p) ==
    Then(or(p), LAMBDA q, expr :
    IF ~check(q, "EQUAL") THEN Ret(q, expr)
    ELSE Then(assignment(advance(q)), LAMBDA q2, rValue :
         With(CASE expr.k = "Variable" -> Ret(q2, Assign(expr.Name, rValue))
                [] expr.k = "Get" ->
                      Ret(q2, Set(expr.Object, expr.Name, rValue))
                [] OTHER ->
                      Ret(parseErrorAtPrevious(q2,
                              "Invalid l-value in assignment."),
                          NilNode), LAMBDA r :
         [r EXCEPT !.p = PLog(@, AssignmentRecord(peek(q), expr, rValue,
                                                  r))])))

\* the loop of or(), entered with the left operand
orLoop(p, expr) ==
    IF check(p, "OR")
    THEN Then(and(advance(p)), LAMBDA q, right :
              orLoop(q, Logical(expr, peek(p), right)))
    ELSE Ret(p, expr)

or(p) == Then(and(p), orLoop)

\* the loop of and(): its right operand is parsed by and() itself, so the
\* loop runs at most once
and(p) ==
    Then(binaryExpr(p, "equality"), LAMBDA q, expr :
    IF check(q, "AND")
    THEN Then(and(advance(q)), LAMBDA q2, right :
              Ret(q2, Logical(expr, peek(q), right)))
    ELSE Ret(q, expr))

\* the token types of equality, comparison, term and factor
BinaryTypes ==
    [equality |-> {"BANG_EQUAL", "EQUAL_EQUAL"},
     comparison |-> {"GREATER", "GREATER_EQUAL", "LESS", "LESS_EQUAL"},
     term |-> {"MINUS", "PLUS"},
     factor |-> {"SLASH", "STAR"}]

\* next() of the given level
binaryNext(p, level) ==
    CASE level = "equality" -> binaryExpr(p, "comparison")
      [] level = "comparison" -> binaryExpr(p, "term")
      [] level = "term" -> binaryExpr(p, "factor")
      [] level = "factor" -> unary(p)

\* the loop of _binaryExpr: expr = Binary{expr, operator, next()} while the
\* next token is one of the level's types
binaryLoop(p, level, expr) ==
    IF checkAny(p, BinaryTypes[level])
    THEN Then(binaryNext(advance(p), level), LAMBDA q, right :
              binaryLoop(q, level, Binary(expr, peek(p), right)))
    ELSE Ret(p, expr)

\* _binaryExpr(next, types...)
binaryExpr(p, level) ==
    Then(binaryNext(p, level), LAMBDA q, left : binaryLoop(q, level, left))

equality(p) == binaryExpr(p, "equality")

comparison(p) == binaryExpr(p, "comparison")

term(p) == binaryExpr(p, "term")

factor(p) == binaryExpr(p, "factor")

unary(p) ==
    IF checkAny(p, {"BANG", "MINUS"})
    THEN Then(unary(advance(p)), LAMBDA q, right :
              Ret(q, Unary(peek(p), right)))
    ELSE call(p)

\* the loop of call(), entered with the callee
callLoop(p, expr) ==
    CASE check(p, "LEFT_PAREN") -> Then(finishCall(advance(p), expr), callLoop)
      [] check(p, "DOT") ->
            Then(consume(advance(p), "IDENTIFIER",
                         "Expect property name after '.'."),
                 LAMBDA q, name : callLoop(q, Get(expr, name)))
      [] OTHER -> Ret(p, expr)

call(p) == Then(primary(p), callLoop)

\* the loop of finishCall collecting the arguments
argsLoop(p, args) ==
    Then(expression(p), LAMBDA q, arg :
    IF check(q, "COMMA") THEN argsLoop(advance(q), Append(args, arg))
    ELSE Ret(q, Append(args, arg)))

finishCall(p, callee) ==
    Then(IF ~check(p, "RIGHT_PAREN") THEN argsLoop(p, <<>>)
         ELSE Ret(p, <<>>), LAMBDA q, args :
    Then(consume(q, "RIGHT_PAREN", "Expect ')' after call arguments."),
         LAMBDA q2, paren :
    Ret(q2, Call(callee, paren, args))))

primary(p) ==
    CASE check(p, "FALSE") -> Ret(advance(p), Literal(BoolVal(FALSE)))
      [] check(p, "TRUE") -> Ret(advance(p), Literal(BoolVal(TRUE)))
      [] check(p, "NIL") -> Ret(advance(p), Literal(NilVal))
      [] checkAny(p, {"NUMBER", "STRING"}) ->
            Ret(advance(p), Literal(peek(p).literal))
      [] check(p, "SUPER") ->
            Then(consume(advance(p), "DOT", "Expect '.' after 'super'."),
                 LAMBDA q, dot :
            Then(consume(q, "IDENTIFIER", "Expect superclass method name."),
                 LAMBDA q2, method :
            Ret(q2, Super(peek(p), method))))
      [] check(p, "THIS") -> Ret(advance(p), This(peek(p)))
      [] check(p, "IDENTIFIER") ->
            Then(nextUniqueVarRef(advance(p)), LAMBDA q, unique :
            Ret(q, Variable(peek(p), unique)))
      [] check(p, "LEFT_PAREN") ->
            Then(expression(advance(p)), LAMBDA q, expr :
            Then(consume(q, "RIGHT_PAREN", "Expect ')' after expression."),
                 LAMBDA q2, close :
            Ret(q2, Grouping(expr))))
      [] OTHER ->
            Ret(parseErrorAtPrevious(p,
                    "FIXME: no default case for primary production, and no error handling"),
                NilNode)

\* the loop of Parse
RECURSIVE ParseLoop(_, _)
ParseLoop(p, statements) ==
    IF isAtEnd(p) THEN Ret(p, statements)
    ELSE Then(declaration(p), LAMBDA q, stmt :
              ParseLoop(q, Append(statements, stmt)))

\* what Parse returns for the result r of its loop.  The deferred recover
\* turns a parseError panic into the returned error; any other panic fails
\* the type assertion r.(parseError) and leaves Parse as a panic.
ParseResult(r) ==
    IF r.failed THEN [stmts |-> <<>>, err |-> r.p.err, history |-> r.p.history]
    ELSE [stmts |-> r.v, err |-> NoErr, history |-> r.p.history]

\* Parse: [stmts, err]
Parse(tokens) == ParseResult(ParseLoop(NewParser(tokens), <<>>))

(***************************************************************************)
(* Interpreter construction and the resolution table                       *)
(* (src/unnamed/part_002).  The interpreter is the record                  *)
(*   Stdout        the lines written by print                              *)
(*   localDistance map[Expr]int, a function from expression nodes          *)
(*   envs          the heap of environments [envMap, enclosing,            *)
(*                 interpreter];                                           *)
(*                 a pointer is an index, nil is 0                         *)
(*   instances     the heap of instances [Class, Fields]                   *)
(*   globals, env  pointers to environments                                *)
(*   initialized                                                           *)
(*   history       not part of the program: the record of the blocks and   *)
(*                 calls executed, kept to state properties about them     *)
(***************************************************************************)

NilPtr == 0

EmptyMap == <<>>

\* m[key] = value
MapPut(m, key, value) == (key :> value) @@ m

ClockBuiltin == [t |-> "builtin", name |-> "clock"]

\* &Interpreter{Stdout: stdout}
NewInterpreter ==
    [Stdout |-> <<>>, localDistance |-> EmptyMap, envs |-> <<>>,
     instances |-> <<>>, globals |-> NilPtr, env |-> NilPtr,
     initialized |-> FALSE, history |-> <<>>]

\* the interpreter with a record added to its history
Log(i, entry) == [i EXCEPT !.history = Append(@, entry)]

\* &environment{enclosing: enclosing, interpreter: ...}: the interpreter
\* with the new environment allocated; its pointer is Len(envs).  The field
\* interpreter tells whether the environment's interpreter pointer is set
NewEnv(i, enclosing, interpreter) ==
    [i EXCEPT !.envs = Append(@, [envMap |-> EmptyMap, enclosing |-> enclosing,
                                  interpreter |-> interpreter])]

\* environment.define
EnvDefine(i, e, name, value) ==
    [i EXCEPT !.envs[e].envMap = MapPut(@, name, value)]

\* Interpreter.init
InterpInit(i) ==
    With(NewEnv(i, NilPtr, TRUE), LAMBDA i1 :
        With(Len(i1.envs), LAMBDA g :
    [EnvDefine(i1, g, "clock", ClockBuiltin)
          EXCEPT !.env = g, !.globals = g, !.localDistance = EmptyMap,
                 !.initialized = TRUE]))

\* Interpreter.ensureInit
InterpEnsureInit(i) == IF ~i.initialized THEN InterpInit(i) ELSE i

\* Whether Go can hash the node as a map key: a Call holds a slice, and a
\* struct is hashed through all of its fields
RECURSIVE Hashable(_)
Hashable(expr) ==
    CASE expr.k = "Call" -> FALSE
      [] expr.k = "Assign" -> Hashable(expr.Value)
      [] expr.k \in {"Binary", "Logical"} ->
            Hashable(expr.Left) /\ Hashable(expr.Right)
      [] expr.k = "Unary" -> Hashable(expr.Right)
      [] expr.k = "Get" -> Hashable(expr.Object)
      [] expr.k = "Set" -> Hashable(expr.Object) /\ Hashable(expr.Value)
      [] expr.k = "Grouping" -> Hashable(expr.Expression)
      [] OTHER -> TRUE

\* Interpreter.Resolve: [i, err]
InterpResolve(i, expr, distance) ==
    With(InterpEnsureInit(i), LAMBDA i1 :
    IF ~Hashable(expr)
    THEN [i |-> i1, err |-> GoPanic("hash of unhashable type")]
    ELSE [i |-> [i1 EXCEPT !.localDistance = MapPut(@, expr, distance)],
          err |-> NoErr])

(***************************************************************************)
(* Resolver (src/unnamed/part_003).  The resolver is the record            *)
(* [scopes, interpreter, currentFunctionType, currentClassType, err]; a    *)
(* panic is r.err and is passed on unchanged by the callers.               *)
(***************************************************************************)

NONEFUNC == 0
FUNCTION == 1
INITIALIZER == 2
METHOD == 3

NONECLASS == 0
SUBCLASSCLASS == 1
CLASSCLASS == 2

\* panic(resolutionError{line, msg}).  lines is the set of the lines the
\* error can carry: endScope reports the first unused key in Go's map
\* iteration order, which is not determined
resolutionError(lines, msg) ==
    [kind |-> "resolutionError", lines |-> lines, msg |-> msg]

\* &scope{} after ensureInit
NewScope ==
    [declared |-> EmptyMap, defined |-> EmptyMap, referenced |-> EmptyMap,
     begun |-> 0]

NewResolver(i) ==
    [scopes |-> <<>>, interpreter |-> i, currentFunctionType |-> NONEFUNC,
     currentClassType |-> NONECLASS, err |-> NoErr]

containsKey(s, key) == key \in DOMAIN s.declared

isDefined(s, key) == key \in DOMAIN s.defined

isReferenced(s, key) == key \in DOMAIN s.referenced /\ s.referenced[key]

RFailed(r) == r.err.kind # "none"

resolveError(r, lines, msg) == [r EXCEPT !.err = resolutionError(lines, msg)]

\* the resolver with a record added to the history, which is kept in the
\* interpreter the resolver holds
RLog(r, entry) == [r EXCEPT !.interpreter = Log(@, entry)]

\* the record of one endScope: the number of scopes and the number of
\* records there were when the scope was begun, the names declared in the
\* scope with their lines, and the lines the unused local variable error
\* may report, none when endScope removed the scope
ScopeRecord(r, lines) ==
    [op |-> "endScope", depth |-> Len(r.scopes),
     begun |-> r.scopes[Len(r.scopes)].begun,
     declared |-> r.scopes[Len(r.scopes)].declared, lines |-> lines]

\* the record of one resolveLocal that found the name: the name and the
\* position of the scope that declares it, 1 for the outermost scope
RefRecord(name, scope) ==
    [op |-> "resolveLocal", name |-> name.lexeme, scope |-> scope]

\* the record of one declare: the name, the number of scopes, the number
\* of records there were when the innermost scope was begun, 0 without a
\* scope, and whether declare reported an error
DeclareRecord(r, name, reported) ==
    [op |-> "declare", name |-> name.lexeme, depth |-> Len(r.scopes),
     begun |-> IF Len(r.scopes) = 0 THEN 0
               ELSE r.scopes[Len(r.scopes)].begun,
     reported |-> reported]

\* the record of one VisitThis or VisitSuper of the resolver: the node, the
\* current class type, and the message of the error reported, "" when none
ClassUseRecord(r, expr, reported) ==
    [op |-> "Resolver.Visit" \o expr.k, expr |-> expr,
     classType |-> r.currentClassType, reported |-> reported]

\* the record of one VisitClassStmt of the resolver that has declared the
\* class: the name, the superclass, and whether an error was reported
ClassStmtRecord(cs, reported) ==
    [op |-> "Resolver.VisitClassStmt", name |-> cs.Name,
     superclass |-> cs.Superclass, reported |-> reported]

\* the record of one VisitReturnStmt of the resolver: the statement, the
\* current function type, and whether an error was reported
ReturnRecord(r, rStmt, reported) ==
    [op |-> "VisitReturnStmt", stmt |-> rStmt,
     functionType |-> r.currentFunctionType, reported |-> reported]

\* the record of one beginScope: the number of scopes afterwards and the
\* number of records there were before
BeginRecord(r) ==
    [op |-> "beginScope", depth |-> Len(r.scopes) + 1,
     begun |-> Len(r.interpreter.history)]

\* the record of the end of one Resolve that no panic ended: the number of
\* scopes left, the current function and class type, and NoErr
ResolveRecord(r) ==
    [op |-> "Resolve", scopes |-> Len(r.scopes),
     functionType |-> r.currentFunctionType,
     classType |-> r.currentClassType, err |-> r.err]

\* begun is the number of records there were when the scope was begun
beginScope(r) ==
    [RLog(r, BeginRecord(r)) EXCEPT !.scopes =
         Append(@, [NewScope EXCEPT !.begun = Len(r.interpreter.history)])]

peekScope(r) == r.scopes[Len(r.scopes)]

\* scope.declare on the innermost scope, as peekScope().declare(key, line)
ScopeDeclare(r, key, line) ==
    [r EXCEPT !.scopes[Len(r.scopes)].declared = MapPut(@, key, line)]

\* scope.define on the innermost scope
ScopeDefine(r, key, line) ==
    [r EXCEPT !.scopes[Len(r.scopes)].defined = MapPut(@, key, line)]

\* the scope's names that endScope finds unused
Unused(s) ==
    {key \in DOMAIN s.declared :
        ~isReferenced(s, key) /\ key \notin {"this", "super"}}

\* an endScope that leaves the scope where it is
endScopeKeep(r) == r

\* an endScope that removes the scope without a look at its names
endScopeSilent(r) ==
    [RLog(r, ScopeRecord(r, {})) EXCEPT !.scopes = SubSeq(@, 1, Len(@) - 1)]

\* the error reports the line of the first unused name the range over the
\* map yields, which can be any of them
endScope(r) ==
    IF Unused(peekScope(r)) # {}
    THEN With({peekScope(r).declared[key] : key \in Unused(peekScope(r))},
              LAMBDA lines :
         resolveError(RLog(r, ScopeRecord(r, lines)), lines,
                      "unused local variable"))
    ELSE endScopeSilent(r)

\* a declare that does not look whether the scope has the name
declareAgain(r, name) ==
    IF Len(r.scopes) = 0 THEN RLog(r, DeclareRecord(r, name, FALSE))
    ELSE ScopeDeclare(RLog(r, DeclareRecord(r, name, FALSE)),
                      name.lexeme, name.line)

declare(r, name) ==
    IF Len(r.scopes) > 0 /\ containsKey(peekScope(r), name.lexeme)
    THEN resolveError(RLog(r, DeclareRecord(r, name, TRUE)), {name.line},
                      "already a variable with name in this scope")
    ELSE declareAgain(r, name)

define(r, name) ==
    IF Len(r.scopes) = 0 THEN r ELSE ScopeDefine(r, name.lexeme, name.line)

RECURSIVE resolveLocalFrom(_, _, _, _)
resolveLocalFrom(r, expr, name, depth) ==
    IF depth >= Len(r.scopes) THEN r
    ELSE With(Len(r.scopes) - depth - 1, LAMBDA idx :
         IF containsKey(r.scopes[idx + 1], name.lexeme)
         THEN With(InterpResolve(r.interpreter, expr, depth), LAMBDA res :
              IF res.err.kind # "none"
              THEN [r EXCEPT !.interpreter = res.i, !.err = res.err]
              ELSE [r EXCEPT !.interpreter =
                                 Log(res.i, RefRecord(name, idx + 1)),
                             !.scopes[idx + 1].referenced =
                                 MapPut(@, name.lexeme, TRUE)])
         ELSE resolveLocalFrom(r, expr, name, depth + 1))

resolveLocal(r, expr, name) == resolveLocalFrom(r, expr, name, 0)

RECURSIVE resolveStmts(_, _), resolveStmt(_, _), resolveExpr(_, _)
RECURSIVE resolveFunction(_, _, _), resolveParams(_, _), resolveMethods(_, _)
RECURSIVE resolveExprs(_, _)

resolveStmts(r, stmts) ==
    IF RFailed(r) \/ stmts = <<>> THEN r
    ELSE resolveStmts(resolveStmt(r, Head(stmts)), Tail(stmts))

resolveExprs(r, exprs) ==
    IF RFailed(r) \/ exprs = <<>> THEN r
    ELSE resolveExprs(resolveExpr(r, Head(exprs)), Tail(exprs))

\* the loop of resolveFunction declaring and defining the parameters
resolveParams(r, params) ==
    IF RFailed(r) \/ params = <<>> THEN r
    ELSE With(declare(r, Head(params)), LAMBDA r1 :
         IF RFailed(r1) THEN r1
         ELSE resolveParams(define(r1, Head(params)), Tail(params)))

\* a resolveFunction that leaves the function type of the function it has
\* resolved
keepFunctionType(r, typ) == r

\* "r.currentFunctionType = enclosingFunctionType"
restoreFunctionType(r, typ) == [r EXCEPT !.currentFunctionType = typ]

resolveFunction(r, fStmt, typ) ==
    With(r.currentFunctionType, LAMBDA enclosingFunctionType :
        With(beginScope([r EXCEPT !.currentFunctionType = typ]), LAMBDA r1 :
        With(resolveParams(r1, fStmt.Params), LAMBDA r2 :
        With(resolveStmts(r2, fStmt.Body), LAMBDA r3 :
    IF RFailed(r3) THEN r3
       ELSE With(endScope(r3), LAMBDA r4 :
            IF RFailed(r4) THEN r4
            ELSE restoreFunctionType(r4, enclosingFunctionType))))))

\* the loop of VisitClassStmt over the methods
resolveMethods(r, methods) ==
    IF RFailed(r) \/ methods = <<>> THEN r
    ELSE resolveMethods(
             resolveFunction(r, Head(methods),
                             IF Head(methods).Name.lexeme = "init"
                             THEN INITIALIZER ELSE METHOD),
             Tail(methods))

\* a VisitClassStmt that leaves the class type of the class it has resolved
keepClassType(r, typ) == r

\* "r.currentClassType = enclosingClassType"
restoreClassType(r, typ) == [r EXCEPT !.currentClassType = typ]

ResolverVisitClassStmt(r0, cs) ==
    With(r0.currentClassType, LAMBDA enclosingClassType :
        With(declare([r0 EXCEPT !.currentClassType = CLASSCLASS], cs.Name), LAMBDA rDecl :
        With(define(rDecl, cs.Name), LAMBDA r1 :
        With(cs.Superclass # NilNode, LAMBDA hasSuper :
    IF RFailed(rDecl) THEN rDecl
    ELSE IF hasSuper /\ cs.Name.lexeme = cs.Superclass.Name.lexeme
    THEN resolveError(RLog(r1, ClassStmtRecord(cs, TRUE)), {cs.Name.line},
                      "A class can't inherit from itself.")
    ELSE
    With(IF hasSuper
              THEN resolveExpr([RLog(r1, ClassStmtRecord(cs, FALSE))
                                   EXCEPT !.currentClassType = SUBCLASSCLASS],
                               cs.Superclass)
              ELSE RLog(r1, ClassStmtRecord(cs, FALSE)), LAMBDA r2 :
    IF RFailed(r2) THEN r2 ELSE
    With(IF hasSuper
              THEN ScopeDefine(ScopeDeclare(beginScope(r2), "super",
                                            cs.Name.line),
                               "super", cs.Name.line)
              ELSE r2, LAMBDA r3 :
        With(ScopeDefine(ScopeDeclare(beginScope(r3), "this", cs.Name.line),
                          "this", cs.Name.line), LAMBDA r4 :
        With(resolveMethods(r4, cs.Methods), LAMBDA r5 :
    IF RFailed(r5) THEN r5 ELSE
    With(endScope(r5), LAMBDA r6 :
    IF RFailed(r6) THEN r6 ELSE
    With(IF hasSuper THEN endScope(r6) ELSE r6, LAMBDA r7 :
    IF RFailed(r7) THEN r7
    ELSE restoreClassType(r7, enclosingClassType)))))))))))

ResolverVisitReturnStmt(r, rStmt) ==
    IF rStmt.Value # NilNode
    THEN IF r.currentFunctionType = NONEFUNC
         THEN resolveError(RLog(r, ReturnRecord(r, rStmt, TRUE)),
                           {rStmt.Keyword.line},
                           "can't return a value from top-level code.")
         ELSE IF r.currentFunctionType = INITIALIZER
         THEN resolveError(RLog(r, ReturnRecord(r, rStmt, TRUE)),
                           {rStmt.Keyword.line},
                           "can't return a value from an initializer")
         ELSE resolveExpr(RLog(r, ReturnRecord(r, rStmt, FALSE)),
                          rStmt.Value)
    ELSE RLog(r, ReturnRecord(r, rStmt, FALSE))

ResolverVisitVarStmt(r, varStmt) ==
    With(declare(r, varStmt.Name), LAMBDA r1 :
    IF RFailed(r1) THEN r1 ELSE
    With(IF varStmt.Initializer # NilNode
              THEN resolveExpr(r1, varStmt.Initializer) ELSE r1, LAMBDA r2 :
    IF RFailed(r2) THEN r2 ELSE define(r2, varStmt.Name)))

ResolverVisitFunctionStmt(r, fStmt) ==
    With(declare(r, fStmt.Name), LAMBDA r1 :
    IF RFailed(r1) THEN r1
    ELSE resolveFunction(define(r1, fStmt.Name), fStmt, FUNCTION))

ResolverVisitBlockStmt(r, blockStmt) ==
    With(resolveStmts(beginScope(r), blockStmt.Statements), LAMBDA r1 :
    IF RFailed(r1) THEN r1 ELSE endScope(r1))

ResolverVisitIfStmt(r, iStmt) ==
    With(resolveExpr(r, iStmt.Condition), LAMBDA r1 :
    IF RFailed(r1) THEN r1 ELSE
    With(resolveStmt(r1, iStmt.Then), LAMBDA r2 :
    IF RFailed(r2) THEN r2
    ELSE IF iStmt.Else # NilNode THEN resolveStmt(r2, iStmt.Else) ELSE r2))

ResolverVisitWhileStmt(r, wStmt) ==
    With(resolveExpr(r, wStmt.Condition), LAMBDA r1 :
    IF RFailed(r1) THEN r1 ELSE resolveStmt(r1, wStmt.Body))

resolveStmt(r, stmt) ==
    CASE stmt.k = "ExprStmt" -> resolveExpr(r, stmt.Expression)
      [] stmt.k = "PrintStmt" -> resolveExpr(r, stmt.Expression)
      [] stmt.k = "FunctionStmt" -> ResolverVisitFunctionStmt(r, stmt)
      [] stmt.k = "IfStmt" -> ResolverVisitIfStmt(r, stmt)
      [] stmt.k = "WhileStmt" -> ResolverVisitWhileStmt(r, stmt)
      [] stmt.k = "BlockStmt" -> ResolverVisitBlockStmt(r, stmt)
      [] stmt.k = "ClassStmt" -> ResolverVisitClassStmt(r, stmt)
      [] stmt.k = "ReturnStmt" -> ResolverVisitReturnStmt(r, stmt)
      [] stmt.k = "VariableStmt" -> ResolverVisitVarStmt(r, stmt)

ResolverVisitVariable(r, varExpr) ==
    IF /\ Len(r.scopes) > 0
       /\ containsKey(peekScope(r), varExpr.Name.lexeme)
       /\ ~isDefined(peekScope(r), varExpr.Name.lexeme)
    THEN resolveError(r, {varExpr.Name.line},
                      "Can't read local variable in its own initializer")
    ELSE resolveLocal(r, varExpr, varExpr.Name)

ResolverVisitAssign(r, assignExpr) ==
    With(resolveExpr(r, assignExpr.Value), LAMBDA r1 :
    IF RFailed(r1) THEN r1 ELSE resolveLocal(r1, assignExpr, assignExpr.Name))

ResolverVisitSuper(r, se) ==
    IF r.currentClassType = NONECLASS
    THEN resolveError(RLog(r, ClassUseRecord(r, se,
                              "Can't use 'super' outside of a class.")),
                      {se.Keyword.line},
                      "Can't use 'super' outside of a class.")
    ELSE IF r.currentClassType # SUBCLASSCLASS
    THEN resolveError(RLog(r, ClassUseRecord(r, se,
                        "Can't use 'super' in a class with no superclass.")),
                      {se.Keyword.line},
                      "Can't use 'super' in a class with no superclass.")
    ELSE resolveLocal(RLog(r, ClassUseRecord(r, se, "")), se, se.Keyword)

ResolverVisitThis(r, te) ==
    IF r.currentClassType = NONECLASS
    THEN resolveError(RLog(r, ClassUseRecord(r, te,
                         "Cannot use 'this' outside of a class method.")),
                      {te.Keyword.line},
                      "Cannot use 'this' outside of a class method.")
    ELSE resolveLocal(RLog(r, ClassUseRecord(r, te, "")), te, te.Keyword)

resolveExpr(r, expr) ==
    CASE expr.k = "Assign" -> ResolverVisitAssign(r, expr)
      [] expr.k \in {"Binary", "Logical"} ->
            resolveExprs(r, <<expr.Left, expr.Right>>)
      [] expr.k = "Call" -> resolveExprs(r, <<expr.Callee>> \o expr.Args)
      [] expr.k = "Get" -> resolveExpr(r, expr.Object)
      [] expr.k = "Grouping" -> resolveExpr(r, expr.Expression)
      [] expr.k = "Literal" -> r
      [] expr.k = "Set" -> resolveExprs(r, <<expr.Value, expr.Object>>)
      [] expr.k = "Super" -> ResolverVisitSuper(r, expr)
      [] expr.k = "This" -> ResolverVisitThis(r, expr)
      [] expr.k = "Unary" -> resolveExpr(r, expr.Right)
      [] expr.k = "Variable" -> ResolverVisitVariable(r, expr)

\* Resolver.Resolve: the resolver afterwards.  The deferred recover turns a
\* resolutionError panic into the returned error; any other panic fails the
\* type assertion r.(resolutionError) and leaves Resolve as a panic.
ResolverResolve(r, stmts) ==
    With(resolveStmts(RLog(r, [op |-> "Resolve.begin"]), stmts), LAMBDA q :
    IF RFailed(q) THEN q ELSE RLog(q, ResolveRecord(q)))

(***************************************************************************)
(* Runtime values, environments, classes and instances                     *)
(* (src/unnamed/part_002, src/function.go, src/parser.go from line 523).   *)
(* An evaluation yields [i, v, c]: the interpreter afterwards, the value,  *)
(* and the panic that ends it, or NoErr.  Panics are                       *)
(*   runtimeError(line, msg)   Interpreter.runtimeError                    *)
(*   returnable(value)         VisitReturnStmt                             *)
(*   GoPanic(msg)              a panic of the Go runtime                   *)
(***************************************************************************)

runtimeError(line, msg) == [kind |-> "runtimeError", line |-> line, msg |-> msg]

returnable(value) == [kind |-> "returnable", Value |-> value]

Res(i, v, c) == [i |-> i, v |-> v, c |-> c]

Abnormal(r) == r.c.kind # "none"

Function(decl, closure, isInitializer) ==
    [t |-> "function", Declaration |-> decl, Closure |-> closure,
     isInitializer |-> isInitializer]

\* Superclass is a *Class: NilVal is the nil pointer
Class(name, methods, superclass) ==
    [t |-> "class", Name |-> name, Methods |-> methods,
     Superclass |-> superclass]

\* a zero value that is a class with a method
ZeroClassObject ==
    [t |-> "class", Name |-> "Object",
     Methods |-> [nowhere |-> [t |-> "nil"]], Superclass |-> [t |-> "nil"]]

\* the zero value Class{}
ZeroClass == Class("", EmptyMap, NilVal)

\* a *Instance
InstancePtr(ptr) == [t |-> "instance", ptr |-> ptr]

IsCallable(v) == v.t \in {"function", "class", "builtin"}

\* the record of one executeBlock, kept to state properties of the
\* environment stack: the environment before, the new one, the one after,
\* and how the block was left
BlockRecord(prevEnv, newEnv, after, exit) ==
    [op |-> "executeBlock", prevEnv |-> prevEnv, newEnv |-> newEnv,
     after |-> after, exit |-> exit]

\* environment.ancestor: NilPtr when the walk leaves the chain, where Go
\* dereferences a nil pointer
RECURSIVE ancestor(_, _, _)
ancestor(i, e, distance) ==
    IF e = NilPtr \/ distance <= 0 THEN e
    ELSE ancestor(i, i.envs[e].enclosing, distance - 1)

\* environment.getAt
getAt(i, e, distance, tok) ==
    With(ancestor(i, e, distance), LAMBDA target :
    IF target = NilPtr
    THEN Res(i, NilVal, GoPanic("nil pointer dereference"))
    ELSE IF tok.lexeme \notin DOMAIN i.envs[target].envMap
    THEN Res(i, NilVal, runtimeError(tok.line, "Undefined (local) variable"))
    ELSE Res(i, i.envs[target].envMap[tok.lexeme], NoErr))

\* environment.assignAt
assignAt(i, e, distance, name, value) ==
    With(ancestor(i, e, distance), LAMBDA target :
    IF target = NilPtr
    THEN Res(i, NilVal, GoPanic("nil pointer dereference"))
    ELSE IF name.lexeme \notin DOMAIN i.envs[target].envMap
    THEN Res(i, NilVal,
             runtimeError(name.line, "Undefined (local) variable in assignment"))
    ELSE Res(EnvDefine(i, target, name.lexeme, value), value, NoErr))

\* environment.get
RECURSIVE envGet(_, _, _)
envGet(i, e, tok) ==
    IF tok.lexeme \in DOMAIN i.envs[e].envMap
    THEN Res(i, i.envs[e].envMap[tok.lexeme], NoErr)
    ELSE IF i.envs[e].enclosing # NilPtr
    THEN envGet(i, i.envs[e].enclosing, tok)
    ELSE Res(i, NilVal, runtimeError(tok.line, "Undefined (global) variable"))

\* environment.assign
RECURSIVE envAssign(_, _, _, _)
envAssign(i, e, name, value) ==
    IF name.lexeme \in DOMAIN i.envs[e].envMap
    THEN Res(EnvDefine(i, e, name.lexeme, value), value, NoErr)
    ELSE IF i.envs[e].enclosing # NilPtr
    THEN envAssign(i, i.envs[e].enclosing, name, value)
    ELSE Res(i, NilVal,
             runtimeError(name.line, "Undefined (global) variable in assignment"))

\* a findMethod that looks in the class itself only
findMethodOwn(c, name) ==
    IF name \in DOMAIN c.Methods
    THEN [found |-> TRUE, method |-> c.Methods[name]]
    ELSE [found |-> FALSE, method |-> NilVal]

\* Class.findMethod: [found, method]
RECURSIVE findMethod(_, _)
findMethod(c, name) ==
    IF name \in DOMAIN c.Methods
    THEN [found |-> TRUE, method |-> c.Methods[name]]
    ELSE IF c.Superclass # NilVal THEN findMethod(c.Superclass, name)
    ELSE [found |-> FALSE, method |-> NilVal]

\* Function.bindMethodToInstance: [i, v], v the bound function
bindMethodToInstance(i, f, inst) ==
    With(NewEnv(i, f.Closure, FALSE), LAMBDA i1 :
        With(Len(i1.envs), LAMBDA e :
    Res(EnvDefine(i1, e, "this", inst),
           Function(f.Declaration, e, f.isInitializer), NoErr)))

\* an Arity that looks for init in the class itself only
ArityOwn(callee) ==
    CASE callee.t = "function" -> Len(callee.Declaration.Params)
      [] callee.t = "class" ->
            IF findMethodOwn(callee, "init").found
            THEN Len(findMethodOwn(callee, "init").method.Declaration.Params)
            ELSE 0
      [] callee.t = "builtin" -> 0

\* Function.Arity, Class.Arity, ClockBuiltin.Arity
Arity(callee) ==
    CASE callee.t = "function" -> Len(callee.Declaration.Params)
      [] callee.t = "class" ->
            IF findMethod(callee, "init").found
            THEN Len(findMethod(callee, "init").method.Declaration.Params)
            ELSE 0
      [] callee.t = "builtin" -> 0

\* Interpreter._isTruthy
isTruthy(obj) ==
    IF obj.t = "nil" THEN FALSE
    ELSE IF obj.t = "bool" THEN obj.b
    ELSE TRUE

(***************************************************************************)
(* float64 arithmetic on the decimals n / 10^e.  Sums, differences,        *)
(* products and comparisons are exact; a quotient is exact when it has at  *)
(* most DivDigits decimals and is truncated to them otherwise; a division  *)
(* by zero yields the value Inf.                                           *)
(***************************************************************************)

DivDigits == 6

Inf == [t |-> "num", inf |-> TRUE]

Max(a, b) == IF a >= b THEN a ELSE b

\* the numerator of x at the scale 10^e, for e >= x.e
Scaled(x, e) == x.n * Pow10(e - x.e)

NumAdd(x, y) == NumVal(Scaled(x, Max(x.e, y.e)) + Scaled(y, Max(x.e, y.e)),
                       Max(x.e, y.e))

NumSub(x, y) == NumVal(Scaled(x, Max(x.e, y.e)) - Scaled(y, Max(x.e, y.e)),
                       Max(x.e, y.e))

NumMul(x, y) == NumVal(x.n * y.n, x.e + y.e)

NumDiv(x, y) ==
    IF y.n = 0 THEN Inf
    ELSE With(Max(x.e, y.e), LAMBDA e :
             With(Scaled(x, e) * Pow10(DivDigits), LAMBDA num :
             With(Scaled(y, e), LAMBDA den :
             With(IF (num < 0) = (den < 0)
                  THEN (IF num < 0 THEN -num ELSE num)
                       \div (IF den < 0 THEN -den ELSE den)
                  ELSE -((IF num < 0 THEN -num ELSE num)
                         \div (IF den < 0 THEN -den ELSE den)), LAMBDA q :
         NumVal(q, DivDigits)))))

NumLess(x, y) == Scaled(x, Max(x.e, y.e)) < Scaled(y, Max(x.e, y.e))

IsFinite(x) == x.t = "num" /\ "n" \in DOMAIN x

\* the digits of the fraction m / 10^e, m < 10^e, with its leading zeros
RECURSIVE FracDigits(_, _)
FracDigits(m, e) ==
    IF e = 0 THEN ""
    ELSE FracDigits(m \div 10, e - 1) \o ToString(m % 10)

\* fmt's %v of a float64 (the cases without an exponent)
NumToString(x) ==
    IF ~IsFinite(x) THEN "+Inf"
    ELSE With(IF x.n < 0 THEN -x.n ELSE x.n, LAMBDA a :
             With(IF x.n < 0 THEN "-" ELSE "", LAMBDA sign :
         IF x.e = 0 THEN sign \o ToString(a)
            ELSE sign \o ToString(a \div Pow10(x.e)) \o "."
                 \o FracDigits(a % Pow10(x.e), x.e)))

\* what fmt.Fprintln writes for the value, without the newline
Stringify(i, value) ==
    CASE value.t = "nil" -> "<nil>"
      [] value.t = "bool" -> IF value.b THEN "true" ELSE "false"
      [] value.t = "num" -> NumToString(value)
      [] value.t = "str" -> value.s
      [] value.t = "function" -> "<fn " \o value.Declaration.Name.lexeme \o ">"
      [] value.t = "class" -> value.Name
      [] value.t = "instance" ->
            i.instances[value.ptr].Class.Name \o " instance"
      [] value.t = "builtin" -> "{}"

(***************************************************************************)
(* reflect.DeepEqual on runtime values.  visited holds the pairs of        *)
(* pointers under comparison, which DeepEqual takes to be equal when it    *)
(* meets them again.                                                       *)
(***************************************************************************)

RECURSIVE DeepEqualIn(_, _, _, _), EnvDeepEqual(_, _, _, _)
RECURSIVE MapDeepEqual(_, _, _, _)

MapDeepEqual(i, m1, m2, visited) ==
    /\ DOMAIN m1 = DOMAIN m2
    /\ \A key \in DOMAIN m1 : DeepEqualIn(i, m1[key], m2[key], visited)

EnvDeepEqual(i, e1, e2, visited) ==
    IF e1 = e2 THEN TRUE
    ELSE IF e1 = NilPtr \/ e2 = NilPtr THEN FALSE
    ELSE IF <<"env", e1, e2>> \in visited THEN TRUE
    ELSE With(visited \cup {<<"env", e1, e2>>}, LAMBDA seen :
         /\ MapDeepEqual(i, i.envs[e1].envMap, i.envs[e2].envMap, seen)
         /\ EnvDeepEqual(i, i.envs[e1].enclosing, i.envs[e2].enclosing, seen)
         /\ i.envs[e1].interpreter = i.envs[e2].interpreter)

DeepEqualIn(i, a, b, visited) ==
    IF a.t # b.t THEN FALSE
    ELSE CASE a.t \in {"nil", "bool", "str", "num", "builtin"} -> a = b
           [] a.t = "function" ->
                /\ a.Declaration = b.Declaration
                /\ a.isInitializer = b.isInitializer
                /\ EnvDeepEqual(i, a.Closure, b.Closure, visited)
           [] a.t = "class" ->
                /\ a.Name = b.Name
                /\ MapDeepEqual(i, a.Methods, b.Methods, visited)
                /\ (a.Superclass = NilVal) = (b.Superclass = NilVal)
                /\ (a.Superclass # NilVal =>
                      DeepEqualIn(i, a.Superclass, b.Superclass, visited))
           [] a.t = "instance" ->
                IF a.ptr = b.ptr \/ <<"instance", a.ptr, b.ptr>> \in visited
                THEN TRUE
                ELSE With(visited \cup {<<"instance", a.ptr, b.ptr>>}, LAMBDA seen :
                     /\ DeepEqualIn(i, i.instances[a.ptr].Class,
                                       i.instances[b.ptr].Class, seen)
                        /\ MapDeepEqual(i, i.instances[a.ptr].Fields,
                                        i.instances[b.ptr].Fields, seen))

DeepEqual(i, a, b) == DeepEqualIn(i, a, b, {})

(***************************************************************************)
(* Interpreter: expressions (src/unnamed/part_002 from line 238)           *)
(***************************************************************************)

ThisToken == Token("", "this", NilVal, 0)

checkNumberOperands(op, left, right) ==
    IF left.t # "num" \/ right.t # "num"
    THEN runtimeError(op.line, "operands must be numbers") ELSE NoErr

checkStringOperands(op, left, right) ==
    IF left.t # "str" \/ right.t # "str"
    THEN runtimeError(op.line, "operands must be strings") ELSE NoErr

\* an arithmetic or ordering operator applied to two numbers
NumBinary(typ, x, y) ==
    IF ~IsFinite(x) \/ ~IsFinite(y)
    THEN CASE typ \in {"MINUS", "SLASH", "STAR", "PLUS"} -> Inf
           [] typ \in {"GREATER", "GREATER_EQUAL"} -> BoolVal(~IsFinite(x))
           [] typ \in {"LESS", "LESS_EQUAL"} -> BoolVal(~IsFinite(y))
    ELSE CASE typ = "MINUS" -> NumSub(x, y)
           [] typ = "SLASH" -> NumDiv(x, y)
           [] typ = "STAR" -> NumMul(x, y)
           [] typ = "PLUS" -> NumAdd(x, y)
           [] typ = "GREATER" -> BoolVal(NumLess(y, x))
           [] typ = "GREATER_EQUAL" -> BoolVal(~NumLess(x, y))
           [] typ = "LESS" -> BoolVal(NumLess(x, y))
           [] typ = "LESS_EQUAL" -> BoolVal(~NumLess(y, x))

\* a "+" whose left operand is neither a number nor a string, without the
\* runtime error
plusDefaultNil(i, op) == Res(i, NilVal, NoErr)

\* "default: i.runtimeError(...)" of the switch of "+" on the type of left
plusDefault(i, op) ==
    Res(i, NilVal,
        runtimeError(op.line, "'+' can operate on numbers or strings"))

\* the switch of VisitBinary on the evaluated operands
BinaryOp(i, op, left, right) ==
    CASE op.type \in {"MINUS", "SLASH", "STAR", "GREATER", "GREATER_EQUAL",
                      "LESS", "LESS_EQUAL"} ->
            IF checkNumberOperands(op, left, right) # NoErr
            THEN Res(i, NilVal, checkNumberOperands(op, left, right))
            ELSE Res(i, NumBinary(op.type, left, right), NoErr)
      [] op.type = "PLUS" ->
            IF left.t = "num"
            THEN IF checkNumberOperands(op, left, right) # NoErr
                 THEN Res(i, NilVal, checkNumberOperands(op, left, right))
                 ELSE Res(i, NumBinary("PLUS", left, right), NoErr)
            ELSE IF left.t = "str"
            THEN IF checkStringOperands(op, left, right) # NoErr
                 THEN Res(i, NilVal, checkStringOperands(op, left, right))
                 ELSE Res(i, StrVal(left.s \o right.s), NoErr)
            ELSE plusDefault(i, op)
      [] op.type = "BANG_EQUAL" ->
            Res(i, BoolVal(~DeepEqual(i, left, right)), NoErr)
      [] op.type = "EQUAL_EQUAL" ->
            Res(i, BoolVal(DeepEqual(i, left, right)), NoErr)
      [] OTHER -> Res(i, NilVal,
                      GoPanic("VisitBinary hit intended-unreachable code"))

\* the switch of VisityUnary on the evaluated operand
UnaryOp(i, op, right) ==
    CASE op.type = "MINUS" ->
            IF right.t # "num"
            THEN Res(i, NilVal, GoPanic("interface conversion: not float64"))
            ELSE Res(i, NumBinary("MINUS", NumVal(0, 0), right), NoErr)
      [] op.type = "BANG" ->
            Res(i, BoolVal(IF right.t = "nil" THEN TRUE
                           ELSE IF right.t = "bool" THEN ~right.b
                           ELSE FALSE), NoErr)
      [] OTHER -> Res(i, NilVal,
                      GoPanic("Interpreter hit intended-unreachable code in VisitUnary"))

\* the record of one Function.Call
CallRecord(f, newEnv, callerEnv, after, exit, result) ==
    [op |-> "Function.Call", fn |-> f, newEnv |-> newEnv,
     callerEnv |-> callerEnv, after |-> after, exit |-> exit,
     result |-> result]

\* the record of one VisitCall that reached function.Call(i, args)
VisitCallRecord(callee, exit, result) ==
    [op |-> "VisitCall", callee |-> callee, exit |-> exit, result |-> result]

\* the record of the checks of one VisitCall, made when the callee and the
\* arguments have been evaluated: the node, the values, the number of
\* environments there were, and the panic of the checks or NoErr
CallCheckRecord(i, expr, callee, args, exit) ==
    [op |-> "VisitCall.check", expr |-> expr, callee |-> callee,
     args |-> args, envs |-> Len(i.envs), exit |-> exit]

\* the record of one use of the resolution table by VisitAssign,
\* VisitSuper or lookupVariable: the node, the current environment, whether
\* the table held the node, the environment the walk ended in (globals when
\* the table did not hold the node) and how the access ended
LookupRecord(expr, env, local, target, exit) ==
    [op |-> "lookup", expr |-> expr, env |-> env, local |-> local,
     target |-> target, exit |-> exit]

\* the record of one VisitAssign whose value was evaluated: the node, the
\* value, the current environment, whether the table held the node, the
\* bindings of the global environment before and after, and how it ended
AssignRecord(i, expr, value, local, r) ==
    [op |-> "VisitAssign", expr |-> expr, value |-> value, env |-> i.env,
     local |-> local, globalsBefore |-> i.envs[i.globals].envMap,
     globalsAfter |-> r.i.envs[r.i.globals].envMap, exit |-> r.c]

\* the record of one VisitSuper: the node, the current environment, the
\* panic that ended it or NoErr, and the bound method it returned
SuperRecord(expr, env, c, method) ==
    [op |-> "VisitSuper", expr |-> expr, env |-> env, c |-> c,
     method |-> method]

\* the record of one VisitLogical whose left operand was evaluated: the
\* node, the value of the left operand, the number of records there were
\* when the left operand had been evaluated, whether the right operand was
\* evaluated, and how the evaluation ended and with which value
LogicalRecord(expr, left, leftDone, right, exit, result) ==
    [op |-> "VisitLogical", expr |-> expr, left |-> left,
     leftDone |-> leftDone, right |-> right, exit |-> exit,
     result |-> result]

\* the record of one VisitBinary whose operands were evaluated: the node,
\* the values of the operands, and how it ended and with which value
BinaryRecord(expr, left, right, exit, result) ==
    [op |-> "VisitBinary", expr |-> expr, left |-> left, right |-> right,
     exit |-> exit, result |-> result]

\* the record of one VisityUnary whose operand was evaluated: the node, the
\* value of the operand, and how it ended and with which value
UnaryRecord(expr, right, exit, result) ==
    [op |-> "VisityUnary", expr |-> expr, right |-> right, exit |-> exit,
     result |-> result]

\* the record of one VisitGet whose object was evaluated: the node, the
\* value of the object, the fields of the instance at that time (none when
\* the object is no instance), and how it ended and with which value
GetRecord(i, expr, obj, r) ==
    [op |-> "VisitGet", expr |-> expr, obj |-> obj,
     fields |-> IF obj.t = "instance" THEN i.instances[obj.ptr].Fields
                ELSE EmptyMap,
     exit |-> r.c, result |-> r.v]

\* the record of one VisitClassStmt that reached its end
ClassRecord(before, after, hasSuper) ==
    [op |-> "VisitClassStmt", prevEnv |-> before, after |-> after,
     hasSuper |-> hasSuper]

\* Instance.Set
InstanceSet(i, ptr, name, value) ==
    [i EXCEPT !.instances[ptr].Fields = MapPut(@, name.lexeme, value)]

\* Instance.Get and the error check of VisitGet
InstanceGet(i, ptr, name) ==
    IF name.lexeme \in DOMAIN i.instances[ptr].Fields
    THEN Res(i, i.instances[ptr].Fields[name.lexeme], NoErr)
    ELSE IF findMethod(i.instances[ptr].Class, name.lexeme).found
    THEN bindMethodToInstance(
             i, findMethod(i.instances[ptr].Class, name.lexeme).method,
             InstancePtr(ptr))
    ELSE Res(i, NilVal, runtimeError(name.line, "Undefined property"))

\* the loop "for i, param := range params { newEnv.define(...) }"
RECURSIVE defineParams(_, _, _, _, _)
defineParams(i, e, names, params, k) ==
    IF k > Len(params) THEN i
    ELSE defineParams(EnvDefine(i, e, names[k].lexeme, params[k]), e, names,
                      params, k + 1)

RECURSIVE evaluate(_, _), evaluateArgs(_, _, _), execute(_, _)
RECURSIVE executeStmts(_, _), executeBlock(_, _, _), FunctionCall(_, _, _)
RECURSIVE ClassCall(_, _, _), CallableCall(_, _, _), whileLoop(_, _)

\* an executeBlock without its deferred function
RestoreEnvMissing(i, prevEnv) == i

\* the deferred function of executeBlock
RestoreEnv(i, prevEnv) == [i EXCEPT !.env = prevEnv]

executeBlock(i, stmts, newEnv) ==
    With(i.env, LAMBDA prevEnv :
        With(executeStmts([i EXCEPT !.env = newEnv], stmts), LAMBDA r :
        With(RestoreEnv(r.i, prevEnv), LAMBDA left :
    Res(Log(left, BlockRecord(prevEnv, newEnv, left.env, r.c.kind)),
           NilVal, r.c))))

\* the value a Function.Call returns when its body completes without panic
CallResult(i, f) ==
    IF f.isInitializer THEN getAt(i, f.Closure, 0, ThisToken)
    ELSE Res(i, NilVal, NoErr)

\* the deferred function of Function.Call: a returnable panic becomes the
\* returned value, any other panic goes on
RecoverReturn(b) ==
    IF b.c.kind = "returnable" THEN Res(b.i, b.c.Value, NoErr) ELSE b

FunctionCall(i, f, params) ==
    With(i.env, LAMBDA callerEnv :
        With(NewEnv(i, f.Closure, TRUE), LAMBDA i1 :
        With(Len(i1.envs), LAMBDA newEnv :
        With(defineParams(i1, newEnv, f.Declaration.Params, params, 1), LAMBDA i2 :
        With(executeBlock(i2, f.Declaration.Body, newEnv), LAMBDA b :
        With(IF Abnormal(b) THEN RecoverReturn(b) ELSE CallResult(b.i, f), LAMBDA r :
    Res(Log(r.i, CallRecord(f, newEnv, callerEnv, r.i.env, b.c.kind,
                               IF Abnormal(r) THEN NilVal ELSE r.v)),
           r.v, r.c)))))))

ClassCall(i, c, args) ==
    With([i EXCEPT !.instances =
                  Append(@, [Class |-> c, Fields |-> EmptyMap])], LAMBDA i1 :
        With(InstancePtr(Len(i1.instances)), LAMBDA inst :
        With(findMethod(c, "init"), LAMBDA initializer :
    IF initializer.found
       THEN With(bindMethodToInstance(i1, initializer.method, inst), LAMBDA bound :
                With(FunctionCall(bound.i, bound.v, args), LAMBDA r :
            IF Abnormal(r) THEN r ELSE Res(r.i, inst, NoErr)))
       ELSE Res(i1, inst, NoErr))))

\* function.Call(i, args) on a Callable
CallableCall(i, callee, args) ==
    CASE callee.t = "function" -> FunctionCall(i, callee, args)
      [] callee.t = "class" -> ClassCall(i, callee, args)
      [] callee.t = "builtin" -> Res(i, NumVal(0, 0), NoErr)

\* the loop of VisitCall evaluating the arguments: v is the list of values
evaluateArgs(i, exprs, args) ==
    IF exprs = <<>> THEN Res(i, args, NoErr)
    ELSE With(evaluate(i, Head(exprs)), LAMBDA r :
         IF Abnormal(r) THEN r
         ELSE evaluateArgs(r.i, Tail(exprs), Append(args, r.v)))

InterpVisitCall(i, callExpr) ==
    With(evaluate(i, callExpr.Callee), LAMBDA rCallee :
    IF Abnormal(rCallee) THEN rCallee ELSE
    With(evaluateArgs(rCallee.i, callExpr.Args, <<>>), LAMBDA rArgs :
    IF Abnormal(rArgs) THEN rArgs
    ELSE IF ~IsCallable(rCallee.v)
    THEN With(runtimeError(callExpr.Paren.line,
                           "Can only call functions and classes."), LAMBDA c :
         Res(Log(rArgs.i, CallCheckRecord(rArgs.i, callExpr, rCallee.v,
                                          rArgs.v, c)), NilVal, c))
    ELSE IF Len(rArgs.v) # Arity(rCallee.v)
    THEN With(runtimeError(callExpr.Paren.line, "Expected args but got"),
              LAMBDA c :
         Res(Log(rArgs.i, CallCheckRecord(rArgs.i, callExpr, rCallee.v,
                                          rArgs.v, c)), NilVal, c))
    ELSE With(CallableCall(Log(rArgs.i,
                               CallCheckRecord(rArgs.i, callExpr, rCallee.v,
                                               rArgs.v, NoErr)),
                           rCallee.v, rArgs.v), LAMBDA r :
         Res(Log(r.i, VisitCallRecord(rCallee.v, r.c.kind,
                                      IF Abnormal(r) THEN NilVal ELSE r.v)),
             r.v, r.c))))

InterpVisitAssign(i, assignExpr) ==
    With(evaluate(i, assignExpr.Value), LAMBDA rValue :
    IF Abnormal(rValue) THEN rValue
    ELSE IF ~Hashable(assignExpr)
    THEN With(Res(rValue.i, NilVal, GoPanic("hash of unhashable type")),
              LAMBDA r :
         Res(Log(r.i, AssignRecord(rValue.i, assignExpr, rValue.v, FALSE, r)),
             r.v, r.c))
    ELSE
    With(rValue.i, LAMBDA j :
        With(assignExpr \in DOMAIN j.localDistance, LAMBDA local :
        With(IF local
             THEN assignAt(j, j.env, j.localDistance[assignExpr],
                           assignExpr.Name, rValue.v)
             ELSE envAssign(j, j.globals, assignExpr.Name, rValue.v), LAMBDA r :
        With(IF local THEN ancestor(j, j.env, j.localDistance[assignExpr])
                  ELSE j.globals, LAMBDA target :
    Res(Log(Log(r.i, LookupRecord(assignExpr, j.env, local, target,
                                  r.c.kind)),
            AssignRecord(j, assignExpr, rValue.v, local, r)),
        r.v, r.c))))))

\* Interpreter.lookupVariable, for a Variable or a This
lookupVariable(i, expr) ==
    With(IF expr.k = "Variable" THEN expr.Name ELSE expr.Keyword, LAMBDA name :
        With(expr \in DOMAIN i.localDistance, LAMBDA local :
        With(IF local THEN getAt(i, i.env, i.localDistance[expr], name)
             ELSE envGet(i, i.globals, name), LAMBDA r :
        With(IF local THEN ancestor(i, i.env, i.localDistance[expr])
                  ELSE i.globals, LAMBDA target :
    Res(Log(r.i, LookupRecord(expr, i.env, local, target, r.c.kind)),
           r.v, r.c)))))

InterpVisitGet(i, ge) ==
    With(evaluate(i, ge.Object), LAMBDA rObj :
    IF Abnormal(rObj) THEN rObj
    ELSE With(IF rObj.v.t # "instance"
              THEN Res(rObj.i, NilVal,
                       runtimeError(ge.Name.line,
                                    "Only class instances have properties."))
              ELSE InstanceGet(rObj.i, rObj.v.ptr, ge.Name), LAMBDA r :
         Res(Log(r.i, GetRecord(rObj.i, ge, rObj.v, r)), r.v, r.c)))

InterpVisitSet(i, se) ==
    With(evaluate(i, se.Object), LAMBDA rObj :
    IF Abnormal(rObj) THEN rObj
    ELSE IF rObj.v.t # "instance"
    THEN Res(rObj.i, NilVal,
             runtimeError(se.Name.line, "Only class instances have fields."))
    ELSE With(evaluate(rObj.i, se.Value), LAMBDA rValue :
         IF Abnormal(rValue) THEN rValue
         ELSE Res(InstanceSet(rValue.i, rObj.v.ptr, se.Name, rValue.v),
                  rValue.v, NoErr)))

\* a VisitLogical that always goes on to its right operand
ShortCircuitsNever(operator, left) == FALSE

\* "if leftTruthy { return left }" for OR and "if !leftTruthy { return
\* left }" for any other operator: whether VisitLogical returns left
ShortCircuits(operator, left) ==
    IF operator.type = "OR" THEN isTruthy(left) ELSE ~isTruthy(left)

InterpVisitLogical(i, logicalExpr) ==
    With(evaluate(i, logicalExpr.Left), LAMBDA rLeft :
    IF Abnormal(rLeft) THEN rLeft
    ELSE IF ShortCircuits(logicalExpr.Operator, rLeft.v)
    THEN Res(Log(rLeft.i, LogicalRecord(logicalExpr, rLeft.v,
                                        Len(rLeft.i.history), FALSE,
                                        "none", rLeft.v)),
             rLeft.v, NoErr)
    ELSE With(evaluate(rLeft.i, logicalExpr.Right), LAMBDA rRight :
         Res(Log(rRight.i, LogicalRecord(logicalExpr, rLeft.v,
                                         Len(rLeft.i.history), TRUE,
                                         rRight.c.kind, rRight.v)),
             rRight.v, rRight.c)))

InterpVisitSuper(i0, se) ==
    With(se \in DOMAIN i0.localDistance, LAMBDA local :
        With(IF local THEN i0.localDistance[se] ELSE 0, LAMBDA distance :
        With(getAt(i0, i0.env, distance, se.Keyword), LAMBDA rSuper :
        With(Log(i0, LookupRecord(se, i0.env, local,
                                  ancestor(i0, i0.env, distance),
                                  rSuper.c.kind)), LAMBDA i :
        With(getAt(i, i.env, distance - 1, ThisToken), LAMBDA rThis :
        With(IF Abnormal(rSuper) THEN Res(i, NilVal, rSuper.c)
             ELSE IF rSuper.v.t # "class"
             THEN Res(i, NilVal, GoPanic("interface conversion: not Class"))
             ELSE IF ~findMethod(rSuper.v, se.Method.lexeme).found
             THEN Res(i, NilVal,
                      runtimeError(se.Method.line, "Undefined property"))
             ELSE IF Abnormal(rThis) THEN rThis
             ELSE IF rThis.v.t # "instance"
             THEN Res(i, NilVal,
                      GoPanic("interface conversion: not *Instance"))
             ELSE bindMethodToInstance(
                      i, findMethod(rSuper.v, se.Method.lexeme).method,
                      rThis.v), LAMBDA r :
    Res(Log(r.i, SuperRecord(se, i0.env, r.c, r.v)), r.v, r.c)))))))

InterpVisitBinary(i, b) ==
    With(evaluate(i, b.Left), LAMBDA rLeft :
    IF Abnormal(rLeft) THEN rLeft ELSE
    With(evaluate(rLeft.i, b.Right), LAMBDA rRight :
    IF Abnormal(rRight) THEN rRight ELSE
    With(BinaryOp(rRight.i, b.Operator, rLeft.v, rRight.v), LAMBDA r :
    Res(Log(r.i, BinaryRecord(b, rLeft.v, rRight.v, r.c.kind, r.v)),
        r.v, r.c))))

InterpVisitUnary(i, u) ==
    With(evaluate(i, u.Right), LAMBDA rRight :
    IF Abnormal(rRight) THEN rRight ELSE
    With(UnaryOp(rRight.i, u.Operator, rRight.v), LAMBDA r :
    Res(Log(r.i, UnaryRecord(u, rRight.v, r.c.kind, r.v)), r.v, r.c)))

evaluate(i, expr) ==
    CASE expr.k = "Assign" -> InterpVisitAssign(i, expr)
      [] expr.k = "Binary" -> InterpVisitBinary(i, expr)
      [] expr.k = "Call" -> InterpVisitCall(i, expr)
      [] expr.k = "Get" -> InterpVisitGet(i, expr)
      [] expr.k = "Grouping" -> evaluate(i, expr.Expression)
      [] expr.k = "Literal" -> Res(i, expr.Value, NoErr)
      [] expr.k = "Logical" -> InterpVisitLogical(i, expr)
      [] expr.k = "Set" -> InterpVisitSet(i, expr)
      [] expr.k = "Super" -> InterpVisitSuper(i, expr)
      [] expr.k \in {"This", "Variable"} -> lookupVariable(i, expr)
      [] expr.k = "Unary" -> InterpVisitUnary(i, expr)

(***************************************************************************)
(* Interpreter: statements                                                 *)
(***************************************************************************)

executeStmts(i, stmts) ==
    IF stmts = <<>> THEN Res(i, NilVal, NoErr)
    ELSE With(execute(i, Head(stmts)), LAMBDA r :
         IF Abnormal(r) THEN r ELSE executeStmts(r.i, Tail(stmts)))

InterpVisitBlockStmt(i, blockStmt) ==
    With(NewEnv(i, i.env, TRUE), LAMBDA i1 :
    executeBlock(i1, blockStmt.Statements, Len(i1.envs)))

\* the loop of VisitClassStmt building the method table
RECURSIVE classMethods(_, _, _)
classMethods(methodStmts, closure, methods) ==
    IF methodStmts = <<>> THEN methods
    ELSE classMethods(Tail(methodStmts), closure,
                      MapPut(methods, Head(methodStmts).Name.lexeme,
                             Function(Head(methodStmts), closure,
                                      Head(methodStmts).Name.lexeme = "init")))

InterpVisitClassStmt(i, cs) ==
    With(cs.Superclass # NilNode, LAMBDA hasSuper :
        With(IF hasSuper THEN evaluate(i, cs.Superclass)
                  ELSE Res(i, ZeroClass, NoErr), LAMBDA rSuper :
    IF Abnormal(rSuper) THEN rSuper
    ELSE IF rSuper.v.t # "class"
    THEN Res(rSuper.i, NilVal,
             runtimeError(cs.Name.line, "Superclass must be a class."))
    ELSE
    With(rSuper.v, LAMBDA superclass :
        With(rSuper.i.env, LAMBDA prevEnv :
        With(EnvDefine(rSuper.i, rSuper.i.env, cs.Name.lexeme, NilVal), LAMBDA i1 :
        With(IF hasSuper
              THEN With(NewEnv(i1, i1.env, FALSE), LAMBDA pushed :
                   EnvDefine([pushed EXCEPT !.env = Len(pushed.envs)],
                             Len(pushed.envs), "super", superclass))
              ELSE i1, LAMBDA i2 :
        With(Class(cs.Name.lexeme,
                       classMethods(cs.Methods, i2.env, EmptyMap), superclass), LAMBDA class :
        With(IF hasSuper THEN [i2 EXCEPT !.env = i2.envs[i2.env].enclosing]
              ELSE i2, LAMBDA i3 :
        With(envAssign(i3, i3.env, cs.Name, class), LAMBDA r :
    Res(Log(r.i, ClassRecord(prevEnv, r.i.env, hasSuper)), NilVal, r.c))))))))))

InterpVisitFunctionStmt(i, funStmt) ==
    Res(EnvDefine(i, i.env, funStmt.Name.lexeme,
                  Function(funStmt, i.env, FALSE)), NilVal, NoErr)

InterpVisitIfStmt(i, ifStmt) ==
    With(evaluate(i, ifStmt.Condition), LAMBDA rCond :
    IF Abnormal(rCond) THEN rCond
    ELSE IF isTruthy(rCond.v) THEN execute(rCond.i, ifStmt.Then)
    ELSE IF ifStmt.Else # NilNode THEN execute(rCond.i, ifStmt.Else)
    ELSE Res(rCond.i, NilVal, NoErr))

InterpVisitPrintStmt(i, printStmt) ==
    With(evaluate(i, printStmt.Expression), LAMBDA r :
    IF Abnormal(r) THEN r
    ELSE Res([r.i EXCEPT !.Stdout = Append(@, Stringify(r.i, r.v))],
             NilVal, NoErr))

InterpVisitReturnStmt(i, returnStmt) ==
    With(IF returnStmt.Value # NilNode THEN evaluate(i, returnStmt.Value)
             ELSE Res(i, NilVal, NoErr), LAMBDA r :
    IF Abnormal(r) THEN r ELSE Res(r.i, NilVal, returnable(r.v)))

InterpVisitVarStmt(i, vs) ==
    With(IF vs.Initializer # NilNode THEN evaluate(i, vs.Initializer)
             ELSE Res(i, NilVal, NoErr), LAMBDA r :
    IF Abnormal(r) THEN r
       ELSE Res(EnvDefine(r.i, r.i.env, vs.Name.lexeme, r.v), NilVal, NoErr))

whileLoop(i, whileStmt) ==
    With(evaluate(i, whileStmt.Condition), LAMBDA rCond :
    IF Abnormal(rCond) THEN rCond
    ELSE IF ~isTruthy(rCond.v) THEN Res(rCond.i, NilVal, NoErr)
    ELSE With(execute(rCond.i, whileStmt.Body), LAMBDA rBody :
         IF Abnormal(rBody) THEN rBody ELSE whileLoop(rBody.i, whileStmt)))

InterpVisitWhileStmt(i, whileStmt) == whileLoop(i, whileStmt)

InterpVisitExpressionStmt(i, stmt) ==
    With(evaluate(i, stmt.Expression), LAMBDA r : Res(r.i, NilVal, r.c))

execute(i, stmt) ==
    CASE stmt.k = "ClassStmt" -> InterpVisitClassStmt(i, stmt)
      [] stmt.k = "ExprStmt" -> InterpVisitExpressionStmt(i, stmt)
      [] stmt.k = "FunctionStmt" -> InterpVisitFunctionStmt(i, stmt)
      [] stmt.k = "IfStmt" -> InterpVisitIfStmt(i, stmt)
      [] stmt.k = "PrintStmt" -> InterpVisitPrintStmt(i, stmt)
      [] stmt.k = "WhileStmt" -> InterpVisitWhileStmt(i, stmt)
      [] stmt.k = "BlockStmt" -> InterpVisitBlockStmt(i, stmt)
      [] stmt.k = "ReturnStmt" -> InterpVisitReturnStmt(i, stmt)
      [] stmt.k = "VariableStmt" -> InterpVisitVarStmt(i, stmt)

\* an Interpret that initializes the interpreter on every call
InterpretBeginAlways(i) == InterpInit(i)

\* the start of Interpret: "if i.env == nil { i.init() }"
InterpretBegin(i) == IF i.env = NilPtr THEN InterpInit(i) ELSE i

\* the deferred function of Interpret: a runtimeError panic becomes the
\* returned error; for any other panic the type assertion r.(runtimeError)
\* fails and Interpret is left by a panic
InterpretRecover(c) ==
    IF c.kind = "runtimeError" THEN [returned |-> TRUE, err |-> c]
    ELSE [returned |-> FALSE,
          err |-> GoPanic("interface conversion: not runtimeError")]

(***************************************************************************)
(* Source texts given to Lox.run, as sequences of characters.              *)
(***************************************************************************)

\* a closure over a block's local, stored in a global and called:
\*   var a = "global"; var g; { var a = "local"; fun f() { print a; } g = f; } g();
SrcClosure ==
    <<"v", "a", "r", " ", "a", " ", "=", " ", "\"", "g", "l", "o", "b", "a",
      "l", "\"", ";", " ", "v", "a", "r", " ", "g", ";", " ", "{", " ", "v",
      "a", "r", " ", "a", " ", "=", " ", "\"", "l", "o", "c", "a", "l", "\"",
      ";", " ", "f", "u", "n", " ", "f", "(", ")", " ", "{", " ", "p", "r",
      "i", "n", "t", " ", "a", ";", " ", "}", " ", "g", " ", "=", " ", "f",
      ";", " ", "}", " ", "g", "(", ")", ";">>

\* a local read two blocks further in, then a call of the global g:
\*   { var a = 1; { { print a; } } } g();
SrcNested ==
    <<"{", " ", "v", "a", "r", " ", "a", " ", "=", " ", "1", ";", " ", "{",
      " ", "{", " ", "p", "r", "i", "n", "t", " ", "a", ";", " ", "}", " ",
      "}", " ", "}", " ", "g", "(", ")", ";">>

\* the same assignment text at two block depths of one line:
\*   { var a = 0; a = 1; { a = 1; } print a; }
SrcAssignTwice ==
    <<"{", " ", "v", "a", "r", " ", "a", " ", "=", " ", "0", ";", " ", "a",
      " ", "=", " ", "1", ";", " ", "{", " ", "a", " ", "=", " ", "1", ";",
      " ", "}", " ", "p", "r", "i", "n", "t", " ", "a", ";", " ", "}">>

\* a bare return in top-level code:
\*   print 1; return;
SrcReturn ==
    <<"p", "r", "i", "n", "t", " ", "1", ";", " ", "r", "e", "t", "u", "r",
      "n", ";">>

\* an initializer with a bare return, called through the class and directly:
\*   class foo { init() { return; } } var f = foo(); print f.init();
SrcInit ==
    <<"c", "l", "a", "s", "s", " ", "f", "o", "o", " ", "{", " ", "i", "n",
      "i", "t", "(", ")", " ", "{", " ", "r", "e", "t", "u", "r", "n", ";",
      " ", "}", " ", "}", " ", "v", "a", "r", " ", "f", " ", "=", " ", "f",
      "o", "o", "(", ")", ";", " ", "p", "r", "i", "n", "t", " ", "f", ".",
      "i", "n", "i", "t", "(", ")", ";">>

\* super.m at two depths inside the methods of one class:
\*   class A { m() { return "A"; } } class B < A { m() { return super.m(); } n() { { return super.m(); } } } print B().m();
SrcSuper ==
    <<"c", "l", "a", "s", "s", " ", "A", " ", "{", " ", "m", "(", ")", " ",
      "{", " ", "r", "e", "t", "u", "r", "n", " ", "\"", "A", "\"", ";", " ",
      "}", " ", "}", " ", "c", "l", "a", "s", "s", " ", "B", " ", "<", " ",
      "A", " ", "{", " ", "m", "(", ")", " ", "{", " ", "r", "e", "t", "u",
      "r", "n", " ", "s", "u", "p", "e", "r", ".", "m", "(", ")", ";", " ",
      "}", " ", "n", "(", ")", " ", "{", " ", "{", " ", "r", "e", "t", "u",
      "r", "n", " ", "s", "u", "p", "e", "r", ".", "m", "(", ")", ";", " ",
      "}", " ", "}", " ", "}", " ", "p", "r", "i", "n", "t", " ", "B", "(",
      ")", ".", "m", "(", ")", ";">>

\* a return and a runtime error, each leaving a nested block of a call:
\*   fun f(x) { { if (x) return 1; print nope; } } print f(true); f(false);
SrcUnwind ==
    <<"f", "u", "n", " ", "f", "(", "x", ")", " ", "{", " ", "{", " ", "i",
      "f", " ", "(", "x", ")", " ", "r", "e", "t", "u", "r", "n", " ", "1",
      ";", " ", "p", "r", "i", "n", "t", " ", "n", "o", "p", "e", ";", " ",
      "}", " ", "}", " ", "p", "r", "i", "n", "t", " ", "f", "(", "t", "r",
      "u", "e", ")", ";", " ", "f", "(", "f", "a", "l", "s", "e", ")", ";">>

\* a resolution error after a print statement:
\*   print 1; { var a = 1; }
SrcUnused ==
    <<"p", "r", "i", "n", "t", " ", "1", ";", " ", "{", " ", "v", "a", "r",
      " ", "a", " ", "=", " ", "1", ";", " ", "}">>

\* a parse error:
\*   print (1;
SrcParseError ==
    <<"p", "r", "i", "n", "t", " ", "(", "1", ";">>

\* a runtime error after a global definition:
\*   var x = 1; print y; print x;
SrcRuntimeError ==
    <<"v", "a", "r", " ", "x", " ", "=", " ", "1", ";", " ", "p", "r", "i",
      "n", "t", " ", "y", ";", " ", "p", "r", "i", "n", "t", " ", "x", ";">>

\* a read of the global x:
\*   print x;
SrcUseX ==
    <<"p", "r", "i", "n", "t", " ", "x", ";">>

\* a character the scanner rejects:
\*   @
SrcScanError ==
    <<"@">>

\* a closure that updates a captured local on every call:
\*   fun mk() { var n = 0; fun c() { n = n + 1; print n; } return c; } var k = mk(); k(); k();
SrcCounter ==
    <<"f", "u", "n", " ", "m", "k", "(", ")", " ", "{", " ", "v", "a", "r",
      " ", "n", " ", "=", " ", "0", ";", " ", "f", "u", "n", " ", "c", "(",
      ")", " ", "{", " ", "n", " ", "=", " ", "n", " ", "+", " ", "1", ";",
      " ", "p", "r", "i", "n", "t", " ", "n", ";", " ", "}", " ", "r", "e",
      "t", "u", "r", "n", " ", "c", ";", " ", "}", " ", "v", "a", "r", " ",
      "k", " ", "=", " ", "m", "k", "(", ")", ";", " ", "k", "(", ")", ";",
      " ", "k", "(", ")", ";">>

\* a return out of a loop body nested in a call:
\*   fun f() { var n = 0; while (true) { n = n + 1; if (n > 1) return n; } } print f();
SrcLoop ==
    <<"f", "u", "n", " ", "f", "(", ")", " ", "{", " ", "v", "a", "r", " ",
      "n", " ", "=", " ", "0", ";", " ", "w", "h", "i", "l", "e", " ", "(",
      "t", "r", "u", "e", ")", " ", "{", " ", "n", " ", "=", " ", "n", " ",
      "+", " ", "1", ";", " ", "i", "f", " ", "(", "n", " ", ">", " ", "1",
      ")", " ", "r", "e", "t", "u", "r", "n", " ", "n", ";", " ", "}", " ",
      "}", " ", "p", "r", "i", "n", "t", " ", "f", "(", ")", ";">>

\* a runtime error in a method called from a block:
\*   class P { } class Q < P { go() { this.x; } } { var q = Q(); q.go(); }
SrcMethodError ==
    <<"c", "l", "a", "s", "s", " ", "P", " ", "{", " ", "}", " ", "c", "l",
      "a", "s", "s", " ", "Q", " ", "<", " ", "P", " ", "{", " ", "g", "o",
      "(", ")", " ", "{", " ", "t", "h", "i", "s", ".", "x", ";", " ", "}",
      " ", "}", " ", "{", " ", "v", "a", "r", " ", "q", " ", "=", " ", "Q",
      "(", ")", ";", " ", "q", ".", "g", "o", "(", ")", ";", " ", "}">>

\* and / or whose left operand decides, with an unbound x to the right,
\* and whose right operand decides:
\*   print 1 or x; print nil and x; print nil or "b"; print 1 and 2;
SrcLogical ==
    <<"p", "r", "i", "n", "t", " ", "1", " ", "o", "r", " ", "x", ";", " ",
      "p", "r", "i", "n", "t", " ", "n", "i", "l", " ", "a", "n", "d", " ",
      "x", ";", " ", "p", "r", "i", "n", "t", " ", "n", "i", "l", " ", "o",
      "r", " ", "\"", "b", "\"", ";", " ", "p", "r", "i", "n", "t", " ", "1",
      " ", "a", "n", "d", " ", "2", ";">>

\* sums of numbers and of strings, then a number plus a string:
\*   print 1 + 2; print "a" + "b"; print 1 + "a"; print 3;
SrcPlus ==
    <<"p", "r", "i", "n", "t", " ", "1", " ", "+", " ", "2", ";", " ", "p",
      "r", "i", "n", "t", " ", "\"", "a", "\"", " ", "+", " ", "\"", "b",
      "\"", ";", " ", "p", "r", "i", "n", "t", " ", "1", " ", "+", " ", "\"",
      "a", "\"", ";", " ", "p", "r", "i", "n", "t", " ", "3", ";">>

\* a string plus a number:
\*   print "a" + 1;
SrcPlusString ==
    <<"p", "r", "i", "n", "t", " ", "\"", "a", "\"", " ", "+", " ", "1", ";">>

\* nil plus a number:
\*   print nil + 1;
SrcPlusNil ==
    <<"p", "r", "i", "n", "t", " ", "n", "i", "l", " ", "+", " ", "1", ";">>

\* negations of a number, of nil and of a number taken as a truth value, then the negative of a string:
\*   print -1; print !nil; print !0; print -"a";
SrcUnary ==
    <<"p", "r", "i", "n", "t", " ", "-", "1", ";", " ", "p", "r", "i", "n",
      "t", " ", "!", "n", "i", "l", ";", " ", "p", "r", "i", "n", "t", " ",
      "!", "0", ";", " ", "p", "r", "i", "n", "t", " ", "-", "\"", "a", "\"",
      ";">>

\* an unused global, a block whose local is read, a function whose parameter is not used:
\*   var g = 1; { var a = 1; print a; } fun f(x) { }
SrcUnusedParam ==
    <<"v", "a", "r", " ", "g", " ", "=", " ", "1", ";", " ", "{", " ", "v",
      "a", "r", " ", "a", " ", "=", " ", "1", ";", " ", "p", "r", "i", "n",
      "t", " ", "a", ";", " ", "}", " ", "f", "u", "n", " ", "f", "(", "x",
      ")", " ", "{", " ", "}">>

\* a global declared twice, a local that shadows the local of the enclosing block, a parameter name given twice:
\*   var a = 1; var a = 2; { var b = 3; { var b = 4; print b; } print b; } fun f(c, c) { }
SrcRedeclare ==
    <<"v", "a", "r", " ", "a", " ", "=", " ", "1", ";", " ", "v", "a", "r",
      " ", "a", " ", "=", " ", "2", ";", " ", "{", " ", "v", "a", "r", " ",
      "b", " ", "=", " ", "3", ";", " ", "{", " ", "v", "a", "r", " ", "b",
      " ", "=", " ", "4", ";", " ", "p", "r", "i", "n", "t", " ", "b", ";",
      " ", "}", " ", "p", "r", "i", "n", "t", " ", "b", ";", " ", "}", " ",
      "f", "u", "n", " ", "f", "(", "c", ",", " ", "c", ")", " ", "{", " ",
      "}">>

\* returns with a value in a function nested in an initializer, in a method and in a function, a bare return in the initializer, then a return with a value in top-level code:
\*   class A { init() { fun g() { return 1; } g(); return; } m() { return 2; } } fun f() { return 3; } return 4;
SrcReturnValue ==
    <<"c", "l", "a", "s", "s", " ", "A", " ", "{", " ", "i", "n", "i", "t",
      "(", ")", " ", "{", " ", "f", "u", "n", " ", "g", "(", ")", " ", "{",
      " ", "r", "e", "t", "u", "r", "n", " ", "1", ";", " ", "}", " ", "g",
      "(", ")", ";", " ", "r", "e", "t", "u", "r", "n", ";", " ", "}", " ",
      "m", "(", ")", " ", "{", " ", "r", "e", "t", "u", "r", "n", " ", "2",
      ";", " ", "}", " ", "}", " ", "f", "u", "n", " ", "f", "(", ")", " ",
      "{", " ", "r", "e", "t", "u", "r", "n", " ", "3", ";", " ", "}", " ",
      "r", "e", "t", "u", "r", "n", " ", "4", ";">>

\* a return with a value in an initializer:
\*   class B { init() { return 1; } }
SrcInitValue ==
    <<"c", "l", "a", "s", "s", " ", "B", " ", "{", " ", "i", "n", "i", "t",
      "(", ")", " ", "{", " ", "r", "e", "t", "u", "r", "n", " ", "1", ";",
      " ", "}", " ", "}">>

\* a subclass nested in a method of a class with no superclass, with this and super after it:
\*   class A {\n m() {\n class B < A { n() { return super.m; } }\n B;\n return this; }\n k() { return super.k; } }
SrcClassContext ==
    <<"c", "l", "a", "s", "s", " ", "A", " ", "{", "\n", " ", "m", "(", ")",
      " ", "{", "\n", " ", "c", "l", "a", "s", "s", " ", "B", " ", "<", " ",
      "A", " ", "{", " ", "n", "(", ")", " ", "{", " ", "r", "e", "t", "u",
      "r", "n", " ", "s", "u", "p", "e", "r", ".", "m", ";", " ", "}", " ",
      "}", "\n", " ", "B", ";", "\n", " ", "r", "e", "t", "u", "r", "n", " ",
      "t", "h", "i", "s", ";", " ", "}", "\n", " ", "k", "(", ")", " ", "{",
      " ", "r", "e", "t", "u", "r", "n", " ", "s", "u", "p", "e", "r", ".",
      "k", ";", " ", "}", " ", "}">>

\* this in a method, then after the class:
\*   class A { m() { return this; } }\nprint this;
SrcThisOutside ==
    <<"c", "l", "a", "s", "s", " ", "A", " ", "{", " ", "m", "(", ")", " ",
      "{", " ", "r", "e", "t", "u", "r", "n", " ", "t", "h", "i", "s", ";",
      " ", "}", " ", "}", "\n", "p", "r", "i", "n", "t", " ", "t", "h", "i",
      "s", ";">>

\* super after a subclass:
\*   class A { } class B < A { m() { return super.m; } }\nprint super.m;
SrcSuperOutside ==
    <<"c", "l", "a", "s", "s", " ", "A", " ", "{", " ", "}", " ", "c", "l",
      "a", "s", "s", " ", "B", " ", "<", " ", "A", " ", "{", " ", "m", "(",
      ")", " ", "{", " ", "r", "e", "t", "u", "r", "n", " ", "s", "u", "p",
      "e", "r", ".", "m", ";", " ", "}", " ", "}", "\n", "p", "r", "i", "n",
      "t", " ", "s", "u", "p", "e", "r", ".", "m", ";">>

\* a class that names itself as its superclass:
\*   class A { } class B < A { } class C < C { }
SrcInheritSelf ==
    <<"c", "l", "a", "s", "s", " ", "A", " ", "{", " ", "}", " ", "c", "l",
      "a", "s", "s", " ", "B", " ", "<", " ", "A", " ", "{", " ", "}", " ",
      "c", "l", "a", "s", "s", " ", "C", " ", "<", " ", "C", " ", "{", " ",
      "}">>

\* a method extracted from an instance and called after another instance was made, an inherited and an overridden method, a field named as a method, and a name that is neither:
\*   class A { m() { print this.x; } k() { print 1; } } class B < A { k() { print 2; } } var b = B(); b.x = 3; var f = b.m; var c = B(); c.x = 4; f(); b.k(); b.k = 5; print b.k; print b.z;
SrcGet ==
    <<"c", "l", "a", "s", "s", " ", "A", " ", "{", " ", "m", "(", ")", " ",
      "{", " ", "p", "r", "i", "n", "t", " ", "t", "h", "i", "s", ".", "x",
      ";", " ", "}", " ", "k", "(", ")", " ", "{", " ", "p", "r", "i", "n",
      "t", " ", "1", ";", " ", "}", " ", "}", " ", "c", "l", "a", "s", "s",
      " ", "B", " ", "<", " ", "A", " ", "{", " ", "k", "(", ")", " ", "{",
      " ", "p", "r", "i", "n", "t", " ", "2", ";", " ", "}", " ", "}", " ",
      "v", "a", "r", " ", "b", " ", "=", " ", "B", "(", ")", ";", " ", "b",
      ".", "x", " ", "=", " ", "3", ";", " ", "v", "a", "r", " ", "f", " ",
      "=", " ", "b", ".", "m", ";", " ", "v", "a", "r", " ", "c", " ", "=",
      " ", "B", "(", ")", ";", " ", "c", ".", "x", " ", "=", " ", "4", ";",
      " ", "f", "(", ")", ";", " ", "b", ".", "k", "(", ")", ";", " ", "b",
      ".", "k", " ", "=", " ", "5", ";", " ", "p", "r", "i", "n", "t", " ",
      "b", ".", "k", ";", " ", "p", "r", "i", "n", "t", " ", "b", ".", "z",
      ";">>

\* a property of a value that is no instance:
\*   print nil.x; print 1;
SrcGetNil ==
    <<"p", "r", "i", "n", "t", " ", "n", "i", "l", ".", "x", ";", " ", "p",
      "r", "i", "n", "t", " ", "1", ";">>

\* calls of a subclass that inherits an initializer with one parameter, of a function and of a class with no initializer, then the subclass called with no argument:
\*   class A { init(a) { print a; } } class B < A { } fun f(x) { print x; } class C { } B(1); f(2); C(); B();
SrcCallArity ==
    <<"c", "l", "a", "s", "s", " ", "A", " ", "{", " ", "i", "n", "i", "t",
      "(", "a", ")", " ", "{", " ", "p", "r", "i", "n", "t", " ", "a", ";",
      " ", "}", " ", "}", " ", "c", "l", "a", "s", "s", " ", "B", " ", "<",
      " ", "A", " ", "{", " ", "}", " ", "f", "u", "n", " ", "f", "(", "x",
      ")", " ", "{", " ", "p", "r", "i", "n", "t", " ", "x", ";", " ", "}",
      " ", "c", "l", "a", "s", "s", " ", "C", " ", "{", " ", "}", " ", "B",
      "(", "1", ")", ";", " ", "f", "(", "2", ")", ";", " ", "C", "(", ")",
      ";", " ", "B", "(", ")", ";">>

\* a call of a function, then of a string:
\*   fun f() { print 1; } f(); "a"();
SrcCallString ==
    <<"f", "u", "n", " ", "f", "(", ")", " ", "{", " ", "p", "r", "i", "n",
      "t", " ", "1", ";", " ", "}", " ", "f", "(", ")", ";", " ", "\"", "a",
      "\"", "(", ")", ";">>

\* a function that calls itself with too few arguments:
\*   fun f(x) { print x; f(); print 2; } f(1); print 3;
SrcCallNested ==
    <<"f", "u", "n", " ", "f", "(", "x", ")", " ", "{", " ", "p", "r", "i",
      "n", "t", " ", "x", ";", " ", "f", "(", ")", ";", " ", "p", "r", "i",
      "n", "t", " ", "2", ";", " ", "}", " ", "f", "(", "1", ")", ";", " ",
      "p", "r", "i", "n", "t", " ", "3", ";">>

\* assignments to a global variable in a function and in a block of it, then to a name that was never declared:
\*   var x = 1; fun f() { x = 2; print x; { x = 3; } } f(); print x; y = 4; print 5;
SrcAssignGlobal ==
    <<"v", "a", "r", " ", "x", " ", "=", " ", "1", ";", " ", "f", "u", "n",
      " ", "f", "(", ")", " ", "{", " ", "x", " ", "=", " ", "2", ";", " ",
      "p", "r", "i", "n", "t", " ", "x", ";", " ", "{", " ", "x", " ", "=",
      " ", "3", ";", " ", "}", " ", "}", " ", "f", "(", ")", ";", " ", "p",
      "r", "i", "n", "t", " ", "x", ";", " ", "y", " ", "=", " ", "4", ";",
      " ", "p", "r", "i", "n", "t", " ", "5", ";">>

\* the result of a call assigned to a global variable:
\*   fun f() { return 2; } var x = 1; x = f(); print x;
SrcAssignCall ==
    <<"f", "u", "n", " ", "f", "(", ")", " ", "{", " ", "r", "e", "t", "u",
      "r", "n", " ", "2", ";", " ", "}", " ", "v", "a", "r", " ", "x", " ",
      "=", " ", "1", ";", " ", "x", " ", "=", " ", "f", "(", ")", ";", " ",
      "p", "r", "i", "n", "t", " ", "x", ";">>

\* a token that begins no statement, as the first token:
\*   );
SrcParseFirst ==
    <<")", ";">>

\* a source that ends in the middle of an expression:
\*   print 1 +
SrcParseEnd ==
    <<"p", "r", "i", "n", "t", " ", "1", " ", "+">>

\* a string that is not closed, on the second line:
\*   print 1;\n"ab
SrcUnterminated ==
    <<"p", "r", "i", "n", "t", " ", "1", ";", "\n", "\"", "a", "b">>

\* a character that begins no token, on the second line:
\*   print 1;\n#
SrcScanLine ==
    <<"p", "r", "i", "n", "t", " ", "1", ";", "\n", "#">>

\* a for loop with all three clauses and a block body:
\*   for (var i = 0; i < 2; i = i + 1) { print i; }
SrcFor ==
    <<"f", "o", "r", " ", "(", "v", "a", "r", " ", "i", " ", "=", " ", "0",
      ";", " ", "i", " ", "<", " ", "2", ";", " ", "i", " ", "=", " ", "i",
      " ", "+", " ", "1", ")", " ", "{", " ", "p", "r", "i", "n", "t", " ",
      "i", ";", " ", "}">>

\* a for loop with a condition only and a body that is no block:
\*   var n = 0; for (; n < 1;) n = n + 1; print n;
SrcForNoInit ==
    <<"v", "a", "r", " ", "n", " ", "=", " ", "0", ";", " ", "f", "o", "r",
      " ", "(", ";", " ", "n", " ", "<", " ", "1", ";", ")", " ", "n", " ",
      "=", " ", "n", " ", "+", " ", "1", ";", " ", "p", "r", "i", "n", "t",
      " ", "n", ";">>

\* a for loop with no clause:
\*   for (;;) print q;
SrcForEver ==
    <<"f", "o", "r", " ", "(", ";", ";", ")", " ", "p", "r", "i", "n", "t",
      " ", "q", ";">>

\* a for loop with no increment:
\*   for (var k = 0; k < 1;) { k = k + 1; print k; }
SrcForNoInc ==
    <<"f", "o", "r", " ", "(", "v", "a", "r", " ", "k", " ", "=", " ", "0",
      ";", " ", "k", " ", "<", " ", "1", ";", ")", " ", "{", " ", "k", " ",
      "=", " ", "k", " ", "+", " ", "1", ";", " ", "p", "r", "i", "n", "t",
      " ", "k", ";", " ", "}">>

\* a for loop whose initializer is an expression:
\*   var j; for (j = 5; j < 6; j = j + 1) print j;
SrcForExprInit ==
    <<"v", "a", "r", " ", "j", ";", " ", "f", "o", "r", " ", "(", "j", " ",
      "=", " ", "5", ";", " ", "j", " ", "<", " ", "6", ";", " ", "j", " ",
      "=", " ", "j", " ", "+", " ", "1", ")", " ", "p", "r", "i", "n", "t",
      " ", "j", ";">>

\* an assignment whose value is an assignment:
\*   var a; var b; a = b = 1; print a; print b;
SrcAssignChain ==
    <<"v", "a", "r", " ", "a", ";", " ", "v", "a", "r", " ", "b", ";", " ",
      "a", " ", "=", " ", "b", " ", "=", " ", "1", ";", " ", "p", "r", "i",
      "n", "t", " ", "a", ";", " ", "p", "r", "i", "n", "t", " ", "b", ";">>

\* an assignment to a literal:
\*   1 = 2;
SrcAssignLiteral ==
    <<"1", " ", "=", " ", "2", ";">>

\* an assignment to a grouping, with the value on the line after the equals sign:
\*   var a;\n(a) =\n3;
SrcAssignGrouping ==
    <<"v", "a", "r", " ", "a", ";", "\n", "(", "a", ")", " ", "=", "\n", "3",
      ";">>

\* a string of two lines, then a comment, then a statement on the third line:
\*   print "a\nb"; // c\nprint 2;
SrcLines ==
    <<"p", "r", "i", "n", "t", " ", "\"", "a", "\n", "b", "\"", ";", " ",
      "/", "/", " ", "c", "\n", "p", "r", "i", "n", "t", " ", "2", ";">>

\* the result of a call assigned to a local variable:
\*   fun f() { return 2; } { var x = 1; x = f(); print x; }
SrcAssignCallLocal ==
    <<"f", "u", "n", " ", "f", "(", ")", " ", "{", " ", "r", "e", "t", "u",
      "r", "n", " ", "2", ";", " ", "}", " ", "{", " ", "v", "a", "r", " ",
      "x", " ", "=", " ", "1", ";", " ", "x", " ", "=", " ", "f", "(", ")",
      ";", " ", "p", "r", "i", "n", "t", " ", "x", ";", " ", "}">>

\* a class name declared again as a subclass of a subclass of the old class:
\*   class A { m() { print 1; } } class B < A { } class A < B { n() { print 2; } } A().m(); A().n(); print A().z;
SrcRedefine ==
    <<"c", "l", "a", "s", "s", " ", "A", " ", "{", " ", "m", "(", ")", " ",
      "{", " ", "p", "r", "i", "n", "t", " ", "1", ";", " ", "}", " ", "}",
      " ", "c", "l", "a", "s", "s", " ", "B", " ", "<", " ", "A", " ", "{",
      " ", "}", " ", "c", "l", "a", "s", "s", " ", "A", " ", "<", " ", "B",
      " ", "{", " ", "n", "(", ")", " ", "{", " ", "p", "r", "i", "n", "t",
      " ", "2", ";", " ", "}", " ", "}", " ", "A", "(", ")", ".", "m", "(",
      ")", ";", " ", "A", "(", ")", ".", "n", "(", ")", ";", " ", "p", "r",
      "i", "n", "t", " ", "A", "(", ")", ".", "z", ";">>

Sources ==
    {SrcClosure, SrcNested, SrcAssignTwice, SrcReturn,
     SrcInit, SrcSuper, SrcUnwind, SrcUnused,
     SrcParseError, SrcRuntimeError, SrcUseX, SrcScanError,
     SrcCounter, SrcLoop, SrcMethodError}

(***************************************************************************)
(* The driver (src/unnamed/part_002, main, runFile, runPrompt, Lox.run).   *)
(*   mode         "file" for runFile, "repl" for runPrompt                 *)
(*   pc           "idle"     no run in progress                            *)
(*                "parsed"   Lox.run has the statements and is about to    *)
(*                           resolve them                                  *)
(*                "resolved" Lox.run is inside Interpreter.Interpret       *)
(*                "exited"   main has returned                             *)
(*                "crashed"  the process has died of a panic               *)
(*   hadError     Lox.hadError                                             *)
(*   interpreter  Lox.interpreter                                          *)
(*   stmts, idx   the statement list of the current run and the position   *)
(*                of the loop of Interpret in it                           *)
(*   console      the errors Lox.run has printed as "ERROR: ..."           *)
(*   result       what each stage of the current run ended with            *)
(*   lineNo       the number of sources given to Lox.run so far            *)
(***************************************************************************)

\* the number of lines read from standard input
MaxLines == 2

VARIABLES mode, pc, hadError, interpreter, stmts, idx, console, result,
          lineNo

vars == <<mode, pc, hadError, interpreter, stmts, idx, console, result,
          lineNo>>

NoResult ==
    [scan |-> NoErr, parse |-> NoErr, resolve |-> NoErr, interpret |-> NoErr]

\* NewLox and the choice of main between runFile and runPrompt
Init ==
    /\ mode \in {"file", "repl"}
    /\ pc = "idle"
    /\ hadError = FALSE
    /\ interpreter = NewInterpreter
    /\ stmts = <<>>
    /\ idx = 1
    /\ console = <<>>
    /\ result = NoResult
    /\ lineNo = 0

\* a Lox.run that goes on whatever the stage reported
ProceedsAlways(err) == TRUE

\* "if err != nil { fmt.Printf(...); return }" of Lox.run: whether the run
\* goes on to the next stage
Proceeds(err) == err = NoErr

\* where control is once Lox.run has returned: runFile panics when hadError
\* is set and main returns otherwise, runPrompt reads the next line
AfterRun ==
    IF mode = "file" THEN (IF hadError THEN "crashed" ELSE "exited")
    ELSE "idle"

\* the record of one ScanTokens: the source, the tokens emitted, and where
\* in the source each of them ends
ScanRecord(src, s) ==
    [op |-> "ScanTokens", src |-> src, tokens |-> s.Tokens, ends |-> s.ends]

\* the panic that leaves ScanTokens: the string, the line numbers it holds,
\* and the line the scanner was at
ScanPanic(s) ==
    [kind |-> "panic", msg |-> s.panic, lines |-> s.panicLines,
     at |-> s.line]

\* Lox.run up to the parser's result: scanning and parsing of src
RunScanParse(src) ==
    /\ pc = "idle"
    /\ lineNo < (IF mode = "file" THEN 1 ELSE MaxLines)
    /\ LET sc == ScanTokens(src)
           ps == Parse(sc.Tokens)
       IN /\ IF sc.panic # "none"
             THEN /\ pc' = "crashed"
                  /\ stmts' = <<>>
                  /\ result' = [NoResult EXCEPT !.scan = ScanPanic(sc)]
                  /\ UNCHANGED console
             ELSE IF ps.err.kind = "panic"
             THEN /\ pc' = "crashed"
                  /\ stmts' = <<>>
                  /\ result' = [NoResult EXCEPT !.parse = ps.err]
                  /\ UNCHANGED console
             ELSE IF Proceeds(ps.err)
             THEN /\ pc' = "parsed"
                  /\ stmts' = ps.stmts
                  /\ result' = [NoResult EXCEPT !.parse = ps.err]
                  /\ UNCHANGED console
             ELSE /\ pc' = AfterRun
                  /\ stmts' = ps.stmts
                  /\ result' = [NoResult EXCEPT !.parse = ps.err]
                  /\ console' = Append(console, ps.err)
          /\ interpreter' = [interpreter EXCEPT !.history =
                                          Append(@, ScanRecord(src, sc))
                                             \o ps.history]
          /\ lineNo' = lineNo + 1
          /\ idx' = 1
          /\ UNCHANGED <<mode, hadError>>

\* Lox.run from the new Resolver to the result of Resolver.Resolve
RunResolve ==
    /\ pc = "parsed"
    /\ LET rs == ResolverResolve(NewResolver(interpreter), stmts) IN
       /\ interpreter' = rs.interpreter
       /\ IF rs.err.kind = "panic"
          THEN /\ pc' = "crashed"
               /\ result' = [result EXCEPT !.resolve = rs.err]
               /\ UNCHANGED console
          ELSE IF rs.err.kind = "resolutionError"
          THEN \E line \in rs.err.lines :
                  LET err == [kind |-> "resolutionError", line |-> line,
                              msg |-> rs.err.msg]
                  IN /\ result' = [result EXCEPT !.resolve = err]
                     /\ IF Proceeds(err)
                        THEN pc' = "resolved" /\ UNCHANGED console
                        ELSE pc' = AfterRun /\ console' = Append(console, err)
          ELSE /\ pc' = "resolved"
               /\ result' = [result EXCEPT !.resolve = rs.err]
               /\ UNCHANGED console
       /\ UNCHANGED <<mode, hadError, stmts, idx, lineNo>>

\* Interpreter.Interpret, one statement of its loop at a time, and what
\* Lox.run does with its result
RunInterpret ==
    /\ pc = "resolved"
    /\ LET begun == IF idx = 1 THEN InterpretBegin(interpreter)
                    ELSE interpreter
       IN IF idx > Len(stmts)
          THEN /\ interpreter' = begun
               /\ pc' = AfterRun
               /\ UNCHANGED <<idx, console, result>>
          ELSE LET r == execute(begun, stmts[idx]) IN
               /\ interpreter' = r.i
               /\ IF ~Abnormal(r)
                  THEN /\ idx' = idx + 1
                       /\ UNCHANGED <<pc, console, result>>
                  ELSE IF InterpretRecover(r.c).returned
                  THEN /\ pc' = AfterRun
                       /\ result' = [result EXCEPT !.interpret = r.c]
                       /\ console' = Append(console, r.c)
                       /\ UNCHANGED idx
                  ELSE /\ pc' = "crashed"
                       /\ result' = [result EXCEPT !.interpret = r.c]
                       /\ UNCHANGED <<idx, console>>
    /\ UNCHANGED <<mode, hadError, stmts, lineNo>>

\* runPrompt: the line just run is done, "l.hadError = false"; or standard
\* input is at its end and main returns
Eof ==
    /\ mode = "repl"
    /\ pc = "idle"
    /\ pc' = "exited"
    /\ UNCHANGED <<mode, hadError, interpreter, stmts, idx, console, result,
                   lineNo>>

Next ==
    \/ \E src \in Sources : RunScanParse(src)
    \/ RunResolve
    \/ RunInterpret
    \/ Eof

Spec == Init /\ [][Next]_vars

(***************************************************************************)
(* runFile alone: main is given a script, which is one of Programs.        *)
(***************************************************************************)

Programs ==
    Sources \cup
    {SrcLogical, SrcPlus, SrcPlusString, SrcPlusNil, SrcUnary,
     SrcUnusedParam, SrcRedeclare, SrcReturnValue, SrcInitValue,
     SrcClassContext, SrcThisOutside, SrcSuperOutside, SrcInheritSelf,
     SrcGet, SrcGetNil, SrcCallArity, SrcCallString, SrcCallNested,
     SrcAssignGlobal, SrcAssignCall, SrcParseFirst, SrcParseEnd,
     SrcUnterminated, SrcScanLine, SrcFor, SrcForNoInit, SrcForEver,
     SrcForNoInc, SrcForExprInit, SrcAssignChain, SrcAssignLiteral,
     SrcAssignGrouping, SrcLines, SrcAssignCallLocal, SrcRedefine}

FileInit == Init /\ mode = "file"

FileNext ==
    \/ \E src \in Programs : RunScanParse(src)
    \/ RunResolve
    \/ RunInterpret

FileSpec == FileInit /\ [][FileNext]_vars

(***************************************************************************)
(* Properties.  History is the record of the blocks, calls, class          *)
(* declarations and table accesses executed so far.                        *)
(***************************************************************************)

History == interpreter.history

Records(op) == {History[k] : k \in {n \in DOMAIN History : History[n].op = op}}

\* the bindings of the global environment, none before Interpreter.init
GlobalsMap(i) ==
    IF i.globals = NilPtr THEN EmptyMap ELSE i.envs[i.globals].envMap

\* the reference expressions of a statement list, one entry per occurrence,
\* in the order the resolver visits them
RECURSIVE ExprRefs(_), ExprsRefs(_), StmtRefs(_), StmtsRefs(_)
ExprRefs(e) ==
    CASE e.k \in {"Variable", "This", "Super"} -> <<e>>
      [] e.k = "Assign" -> ExprRefs(e.Value) \o <<e>>
      [] e.k \in {"Binary", "Logical"} -> ExprRefs(e.Left) \o ExprRefs(e.Right)
      [] e.k = "Unary" -> ExprRefs(e.Right)
      [] e.k = "Call" -> ExprRefs(e.Callee) \o ExprsRefs(e.Args)
      [] e.k = "Get" -> ExprRefs(e.Object)
      [] e.k = "Set" -> ExprRefs(e.Value) \o ExprRefs(e.Object)
      [] e.k = "Grouping" -> ExprRefs(e.Expression)
      [] OTHER -> <<>>

ExprsRefs(es) ==
    IF es = <<>> THEN <<>> ELSE ExprRefs(Head(es)) \o ExprsRefs(Tail(es))

StmtRefs(s) ==
    CASE s.k \in {"ExprStmt", "PrintStmt"} -> ExprRefs(s.Expression)
      [] s.k = "VariableStmt" -> ExprRefs(s.Initializer)
      [] s.k = "BlockStmt" -> StmtsRefs(s.Statements)
      [] s.k = "IfStmt" ->
            ExprRefs(s.Condition) \o StmtRefs(s.Then) \o StmtRefs(s.Else)
      [] s.k = "WhileStmt" -> ExprRefs(s.Condition) \o StmtRefs(s.Body)
      [] s.k = "FunctionStmt" -> StmtsRefs(s.Body)
      [] s.k = "ReturnStmt" -> ExprRefs(s.Value)
      [] s.k = "ClassStmt" -> ExprRefs(s.Superclass) \o StmtsRefs(s.Methods)
      [] OTHER -> <<>>

StmtsRefs(ss) ==
    IF ss = <<>> THEN <<>> ELSE StmtRefs(Head(ss)) \o StmtsRefs(Tail(ss))

\* the reference expressions of a statement list as a set of nodes
RefNodes(ss) == {StmtsRefs(ss)[k] : k \in DOMAIN StmtsRefs(ss)}

\* C1: whenever the interpreter uses a depth recorded in the table, the
\* environment that many enclosing links from the current one exists and
\* holds the name the expression refers to.
C1_DepthLeadsToBinding ==
    \A h \in Records("lookup") :
        h.local => (h.target # NilPtr /\ h.exit = "none")

\* C2: two distinct occurrences of reference expressions (variable reads,
\* assignments, this, super) in a parsed program are distinct keys of the
\* resolution table, also when they are on the same line.
C2_OccurrencesAreDistinctKeys ==
    \A a, b \in DOMAIN StmtsRefs(stmts) :
        a # b => StmtsRefs(stmts)[a] # StmtsRefs(stmts)[b]

\* C3: once a run has resolved its program, with or without a resolution
\* error, every key of the table is a node of that run's statement list.
C3_TableKeysOfCurrentRun ==
    (/\ lineNo > 0
     /\ pc # "parsed"
     /\ result.scan = NoErr
     /\ result.parse = NoErr
     /\ result.resolve.kind # "panic")
    => DOMAIN interpreter.localDistance \subseteq RefNodes(stmts)

\* C4: after every block, every function call and every class declaration
\* with a superclass, the current environment is the one that was current
\* before it, however it was left.
C4_EnvironmentRestored ==
    /\ \A h \in Records("executeBlock") : h.after = h.prevEnv
    /\ \A h \in Records("Function.Call") : h.after = h.callerEnv
    /\ \A h \in Records("VisitClassStmt") : h.after = h.prevEnv

\* a REPL session in which a call was left by a return through nested
\* blocks, another by a runtime error, and a class with a superclass was
\* declared
C4_Witness ==
    /\ \E h \in Records("executeBlock") :
          /\ h.exit = "returnable"
          /\ \E g \in Records("executeBlock") :
                g.exit = "returnable" /\ g.prevEnv = h.newEnv
    /\ \E h \in Records("executeBlock") : h.exit = "runtimeError"
    /\ \E h \in Records("executeBlock") : h.exit = "none"
    /\ \E h \in Records("Function.Call") : h.exit = "returnable"
    /\ \E h \in Records("Function.Call") : h.exit = "runtimeError"
    /\ \E h \in Records("VisitClassStmt") : h.hasSuper

\* C5: a return unwind never leaves Interpreter.Interpret: no run dies of a
\* returnable panic.
C5_ReturnStaysInsideInterpret ==
    ~(pc = "crashed" /\ result.interpret.kind = "returnable")

\* C6: every call of an initializer that returns yields the instance the
\* initializer is bound to, and every construction through the class yields
\* an instance of that class, whatever the body does.
C6_InitYieldsInstance ==
    \A h \in Records("VisitCall") :
        /\ (h.callee.t = "function" /\ h.callee.isInitializer
               /\ h.exit = "none")
           => h.result = interpreter.envs[h.callee.Closure].envMap["this"]
        /\ (h.callee.t = "class" /\ h.exit = "none")
           => /\ h.result.t = "instance"
              /\ interpreter.instances[h.result.ptr].Class = h.callee

\* the environment of the innermost function call around environment e:
\* NilPtr when e is not inside a call
RECURSIVE CallEnvOf(_)
CallEnvOf(e) ==
    IF e = NilPtr THEN NilPtr
    ELSE IF \E h \in Records("Function.Call") : h.newEnv = e THEN e
    ELSE CallEnvOf(interpreter.envs[e].enclosing)

\* the function value whose call the table access h belongs to
FnOf(h) ==
    (CHOOSE c \in Records("Function.Call") : c.newEnv = CallEnvOf(h.env)).fn

\* the accesses made inside a call to a binding that lives outside the
\* call: environments are numbered in the order of their creation, and
\* those of a call are created after the function's closure
FreeAccesses ==
    {h \in Records("lookup") :
        /\ CallEnvOf(h.env) # NilPtr
        /\ h.target # NilPtr
        /\ h.target <= FnOf(h).Closure}

\* C7: the environment of a call encloses the function's captured
\* environment, not the caller's, and an occurrence of a free variable in a
\* function reaches the same environment on every call of that function.
C7_StaticScoping ==
    /\ \A c \in Records("Function.Call") :
          interpreter.envs[c.newEnv].enclosing = c.fn.Closure
    /\ \A h1, h2 \in FreeAccesses :
          (h1.expr = h2.expr /\ FnOf(h1) = FnOf(h2)) => h1.target = h2.target

\* the nearest environment from e outwards that binds "this"
RECURSIVE ThisEnvOf(_)
ThisEnvOf(e) ==
    IF e = NilPtr THEN NilPtr
    ELSE IF "this" \in DOMAIN interpreter.envs[e].envMap THEN e
    ELSE ThisEnvOf(interpreter.envs[e].enclosing)

\* C8: super.m evaluated anywhere inside a method yields the method m found
\* from the superclass of the class declaring that method, bound to the
\* current instance; it fails only when that superclass chain has no m.
C8_SuperFromDeclaringClass ==
    \A h \in Records("VisitSuper") :
        LET thisEnv == ThisEnvOf(h.env)
            superEnv == interpreter.envs[thisEnv].enclosing
            superclass == interpreter.envs[superEnv].envMap["super"]
            m == findMethod(superclass, h.expr.Method.lexeme)
        IN /\ thisEnv # NilPtr
           /\ superEnv # NilPtr
           /\ "super" \in DOMAIN interpreter.envs[superEnv].envMap
           /\ IF m.found
              THEN /\ h.c = NoErr
                   /\ h.method.Declaration = m.method.Declaration
                   /\ interpreter.envs[h.method.Closure].enclosing
                         = m.method.Closure
                   /\ interpreter.envs[h.method.Closure].envMap["this"]
                         = interpreter.envs[thisEnv].envMap["this"]
              ELSE h.c.kind = "runtimeError"

\* C9: the step in which Interpret returns a runtime error leaves the
\* global environment as the current one, keeps the global environment the
\* interpreter had, and keeps every name bound in it.
C9_UsableAfterRuntimeError ==
    [][(/\ pc = "resolved"
        /\ pc' # "crashed"
        /\ result'.interpret.kind = "runtimeError")
       => /\ interpreter'.env = interpreter'.globals
          /\ interpreter.globals # NilPtr
             => interpreter'.globals = interpreter.globals
          /\ \A name \in DOMAIN GlobalsMap(interpreter) :
                name \in DOMAIN GlobalsMap(interpreter')]_vars

\* the second line of a REPL session has failed at its first statement,
\* leaving a global of the first line bound
C9_Witness ==
    /\ mode = "repl"
    /\ lineNo = 2
    /\ pc = "idle"
    /\ idx = 1
    /\ result.interpret.kind = "runtimeError"
    /\ interpreter.env = interpreter.globals
    /\ DOMAIN GlobalsMap(interpreter) \ {"clock"} # {}

\* the global environment a program finds: the one Interpreter.init makes
\* when the interpreter has none yet
GlobalsFound(i) == GlobalsMap(InterpretBegin(i))

\* the records the resolver makes of its own decisions
ResolverOps ==
    {"Resolve.begin", "beginScope", "endScope", "Resolve", "declare",
     "resolveLocal",
     "VisitReturnStmt",
     "Resolver.VisitThis", "Resolver.VisitSuper", "Resolver.VisitClassStmt"}

\* the records the parser makes of the for loops and assignments it has
\* parsed
ParserOps == {"forStatement", "assignment"}

\* the record kept of a scan
ScannerOps == {"ScanTokens"}

IsExecution(h) == h.op \notin ResolverOps \cup ParserOps \cup ScannerOps

\* the records of the constructs the interpreter has executed
Executed(i) == SelectSeq(i.history, IsExecution)

\* C10: statements are executed only in a run whose scanning, parsing and
\* resolution reported no error; every other step leaves the output, the
\* global environment and the record of executed constructs unchanged.
C10_StagesGated ==
    [][/\ pc = "resolved"
          => (result.scan = NoErr /\ result.parse = NoErr
                 /\ result.resolve = NoErr)
       /\ pc # "resolved"
          => /\ interpreter'.Stdout = interpreter.Stdout
             /\ GlobalsFound(interpreter') = GlobalsFound(interpreter)
             /\ Executed(interpreter') = Executed(interpreter)]_vars

\* a REPL session of a line with a parse error and a line with a resolution
\* error after a print statement: nothing has been printed
C10_Witness ==
    /\ pc = "idle"
    /\ Len(console) = 2
    /\ \E k \in DOMAIN console : console[k].kind = "parseError"
    /\ \E k \in DOMAIN console : console[k].kind = "resolutionError"
    /\ result.resolve.kind = "resolutionError"
    /\ stmts # <<>>
    /\ stmts[1].k = "PrintStmt"
    /\ interpreter.Stdout = <<>>

\* C11: whenever the left operand of an "or" is truthy, or the left operand
\* of an "and" is falsy, the expression yields the left operand's value and
\* nothing is evaluated after the left operand; otherwise the right operand
\* is evaluated and its value, not a boolean made of it, is the result.
C11_ShortCircuit ==
    \A k \in DOMAIN History :
        History[k].op = "VisitLogical" =>
            LET h == History[k]
                decided == IF h.expr.Operator.type = "OR"
                           THEN isTruthy(h.left) ELSE ~isTruthy(h.left)
            IN IF decided
               THEN /\ ~h.right
                    /\ k = h.leftDone + 1
                    /\ h.exit = "none"
                    /\ h.result = h.left
               ELSE /\ h.right
                    /\ h.expr.Right.k = "Literal"
                          => (h.exit = "none"
                              /\ h.result = h.expr.Right.Value)

\* an "or" and an "and" decided by their left operand with a variable
\* read to their right, and an "or" and an "and" that yielded a right
\* operand which is not a boolean
C11_Witness ==
    /\ \E h \in Records("VisitLogical") :
          /\ h.expr.Operator.type = "OR"
          /\ isTruthy(h.left)
          /\ h.expr.Right.k = "Variable"
    /\ \E h \in Records("VisitLogical") :
          /\ h.expr.Operator.type = "AND"
          /\ ~isTruthy(h.left)
          /\ h.expr.Right.k = "Variable"
    /\ \E h \in Records("VisitLogical") :
          h.expr.Operator.type = "OR" /\ h.right /\ h.result = StrVal("b")
    /\ \E h \in Records("VisitLogical") :
          h.expr.Operator.type = "AND" /\ h.right /\ h.result.t = "num"

\* the records the step has added to the history
NewRecords == {History'[k] : k \in DOMAIN History' \ DOMAIN History}

\* C12: "+" on two numbers yields their sum and on two strings their
\* concatenation; on any other pair of operands it ends in a runtime error,
\* which Interpret returns, and a print statement of such a sum prints
\* nothing.
C12_PlusOperands ==
    /\ [](\A h \in Records("VisitBinary") :
            h.expr.Operator.type = "PLUS" =>
               CASE h.left.t = "num" /\ h.right.t = "num" ->
                       /\ h.exit = "none"
                       /\ (/\ IsFinite(h.left) /\ h.left.e = 0
                           /\ IsFinite(h.right) /\ h.right.e = 0)
                          => h.result = [t |-> "num", e |-> 0,
                                         n |-> h.left.n + h.right.n]
                 [] h.left.t = "str" /\ h.right.t = "str" ->
                       /\ h.exit = "none"
                       /\ h.result = [t |-> "str", s |-> h.left.s \o h.right.s]
                 [] OTHER -> h.exit = "runtimeError")
    /\ [][(/\ pc = "resolved"
           /\ \E h \in NewRecords :
                 /\ h.op = "VisitBinary"
                 /\ h.expr.Operator.type = "PLUS"
                 /\ ~(h.left.t = "num" /\ h.right.t = "num")
                 /\ ~(h.left.t = "str" /\ h.right.t = "str")
                 /\ stmts[idx] = PrintStmt(h.expr))
          => /\ pc' = AfterRun
             /\ result'.interpret.kind = "runtimeError"
             /\ console' = Append(console, result'.interpret)
             /\ interpreter'.Stdout = interpreter.Stdout]_vars

\* a script has printed a sum and a concatenation, and Interpret has
\* returned the runtime error of a number plus a string
C12_Witness ==
    /\ pc = "exited"
    /\ result.interpret.kind = "runtimeError"
    /\ interpreter.Stdout = <<"3", "ab">>
    /\ \E h \in Records("VisitBinary") :
          /\ h.expr.Operator.type = "PLUS"
          /\ h.exit = "runtimeError"
          /\ h.left.t = "num"
          /\ h.right.t = "str"

\* C13: "-" applied to a number yields its negative and applied to any
\* other value ends in a runtime error, which Interpret returns; "!" yields
\* true exactly for the operands that are not truthy.
C13_UnaryOperand ==
    /\ \A h \in Records("VisityUnary") :
          CASE h.expr.Operator.type = "MINUS" ->
                  IF h.right.t = "num"
                  THEN /\ h.exit = "none"
                       /\ (IsFinite(h.right) /\ h.right.e = 0)
                          => h.result = [t |-> "num", e |-> 0,
                                         n |-> 0 - h.right.n]
                  ELSE h.exit = "runtimeError"
            [] h.expr.Operator.type = "BANG" ->
                  /\ h.exit = "none"
                  /\ h.result = [t |-> "bool", b |-> ~isTruthy(h.right)]
    /\ (\E h \in Records("VisityUnary") : h.exit # "none")
       => (pc = "exited" /\ result.interpret.kind = "runtimeError")

\* the names that a read, an assignment, a this or a super resolved to the
\* scope ended by History[k], since that scope was begun
UsedIn(k) ==
    {History[j].name :
        j \in {n \in (History[k].begun + 1) .. (k - 1) :
                  /\ History[n].op = "resolveLocal"
                  /\ History[n].scope = History[k].depth}}

\* C14: the resolver leaves a scope with the unused local variable error
\* exactly when the scope declares a name other than this and super that
\* no read or assignment was resolved to; the line reported is the line
\* of such a name, and no other place reports this error, so that no
\* global is reported.
C14_UnusedLocalReported ==
    /\ \A k \in DOMAIN History :
          History[k].op = "endScope" =>
             LET h == History[k]
                 unused == (DOMAIN h.declared \ UsedIn(k)) \ {"this", "super"}
             IN /\ h.depth >= 1
                /\ h.lines = {h.declared[key] : key \in unused}
    /\ (result.resolve.kind = "resolutionError"
           /\ result.resolve.msg = "unused local variable")
       => /\ History # <<>>
          /\ History[Len(History)].op = "endScope"
          /\ result.resolve.line \in History[Len(History)].lines

\* a script with an unused global: the block whose local is read was left
\* without error, and the scope of a function reported its parameter
C14_Witness ==
    /\ pc = "exited"
    /\ result.resolve.kind = "resolutionError"
    /\ result.resolve.msg = "unused local variable"
    /\ \E h \in Records("endScope") :
          DOMAIN h.declared = {"a"} /\ h.lines = {}
    /\ \E h \in Records("endScope") :
          DOMAIN h.declared = {"x"} /\ h.lines # {}
    /\ \A h \in Records("endScope") : "g" \notin DOMAIN h.declared

\* whether the name that History[k] declares was declared before in the
\* same scope: the scope was begun after record History[k].begun, and the
\* declarations made at the same depth since then are those of that scope
Redeclared(k) ==
    \E j \in (History[k].begun + 1) .. (k - 1) :
        /\ History[j].op = "declare"
        /\ History[j].name = History[k].name
        /\ History[j].depth = History[k].depth

\* C15: declare reports "already a variable with name" exactly when the
\* name was declared before in the same scope and that scope is not the
\* global one; no other place reports this error.
C15_RedeclarationReported ==
    /\ \A k \in DOMAIN History :
          History[k].op = "declare" =>
             (History[k].reported <=> (History[k].depth >= 1 /\ Redeclared(k)))
    /\ (result.resolve.kind = "resolutionError"
           /\ result.resolve.msg = "already a variable with name in this scope")
       => /\ History # <<>>
          /\ History[Len(History)].op = "declare"
          /\ History[Len(History)].reported

\* a script has declared a global twice and a local that shadows a local
\* of the enclosing block without error, and the second parameter c of a
\* function was reported
C15_Witness ==
    /\ pc = "exited"
    /\ result.resolve.kind = "resolutionError"
    /\ result.resolve.msg = "already a variable with name in this scope"
    /\ \E k \in DOMAIN History :
          /\ History[k].op = "declare"
          /\ History[k].name = "c"
          /\ History[k].reported
    /\ \E k \in DOMAIN History :
          /\ History[k].op = "declare"
          /\ History[k].name = "a"
          /\ History[k].depth = 0
          /\ Redeclared(k)
          /\ ~History[k].reported
    /\ \E j, k \in DOMAIN History :
          /\ History[j].op = "declare" /\ History[k].op = "declare"
          /\ History[j].name = "b" /\ History[k].name = "b"
          /\ History[j].depth = 1 /\ History[k].depth = 2
          /\ ~History[k].reported

\* the return statements of a statement, each with the type of the
\* innermost function declaration around it, ctx when there is none
RECURSIVE ReturnsOf(_, _), ReturnsOfAll(_, _)
ReturnsOf(s, ctx) ==
    CASE s.k = "ReturnStmt" -> {<<s, ctx>>}
      [] s.k = "BlockStmt" -> ReturnsOfAll(s.Statements, ctx)
      [] s.k = "IfStmt" ->
            ReturnsOf(s.Then, ctx)
               \cup (IF s.Else = NilNode THEN {} ELSE ReturnsOf(s.Else, ctx))
      [] s.k = "WhileStmt" -> ReturnsOf(s.Body, ctx)
      [] s.k = "FunctionStmt" -> ReturnsOfAll(s.Body, FUNCTION)
      [] s.k = "ClassStmt" ->
            UNION {ReturnsOfAll(s.Methods[m].Body,
                                IF s.Methods[m].Name.lexeme = "init"
                                THEN INITIALIZER ELSE METHOD) :
                      m \in DOMAIN s.Methods}
      [] OTHER -> {}

ReturnsOfAll(ss, ctx) == UNION {ReturnsOf(ss[n], ctx) : n \in DOMAIN ss}

\* C16: in a run's resolution, every return statement is visited with the
\* function type of the innermost function declaration around it (none,
\* function, initializer or method), and is reported exactly when it has a
\* value and that type is none or initializer; the two errors about a
\* returned value come from such a statement.
C16_ReturnValueContext ==
    [][pc = "parsed"
       => /\ \A h \in NewRecords :
                h.op = "VisitReturnStmt" =>
                   /\ <<h.stmt, h.functionType>>
                         \in ReturnsOfAll(stmts, NONEFUNC)
                   /\ h.reported <=>
                         (/\ h.stmt.Value # NilNode
                          /\ h.functionType \in {NONEFUNC, INITIALIZER})
          /\ (/\ result'.resolve.kind = "resolutionError"
              /\ result'.resolve.msg \in
                    {"can't return a value from top-level code.",
                     "can't return a value from an initializer"})
             => \E h \in NewRecords :
                   /\ h.op = "VisitReturnStmt"
                   /\ h.reported
                   /\ h.stmt.Keyword.line = result'.resolve.line]_vars

\* the returns with a value in a function nested in an initializer, in a
\* method and in a function were accepted, as was the bare return of the
\* initializer, and the return with a value that follows in top-level code
\* was reported
C16_Witness ==
    /\ pc = "exited"
    /\ result.resolve.kind = "resolutionError"
    /\ result.resolve.msg = "can't return a value from top-level code."
    /\ \E h \in Records("VisitReturnStmt") :
          h.functionType = NONEFUNC /\ h.reported
    /\ \E h \in Records("VisitReturnStmt") :
          h.functionType = INITIALIZER /\ h.stmt.Value = NilNode
             /\ ~h.reported
    /\ \E h \in Records("VisitReturnStmt") :
          h.functionType = METHOD /\ h.stmt.Value # NilNode /\ ~h.reported
    /\ Cardinality({h \in Records("VisitReturnStmt") :
                       h.functionType = FUNCTION /\ ~h.reported}) = 2

\* the this and super expressions of a statement or an expression, each
\* with the class type of the innermost class declaration around it, ctx
\* when there is none
RECURSIVE ClassUsesOf(_, _), ClassUsesOfAll(_, _)
ClassUsesOf(n, ctx) ==
    CASE n = NilNode -> {}
      [] n.k \in {"This", "Super"} -> {<<n, ctx>>}
      [] n.k \in {"ExprStmt", "PrintStmt", "Grouping"} ->
            ClassUsesOf(n.Expression, ctx)
      [] n.k = "VariableStmt" -> ClassUsesOf(n.Initializer, ctx)
      [] n.k = "BlockStmt" -> ClassUsesOfAll(n.Statements, ctx)
      [] n.k = "IfStmt" ->
            ClassUsesOf(n.Condition, ctx) \cup ClassUsesOf(n.Then, ctx)
               \cup ClassUsesOf(n.Else, ctx)
      [] n.k = "WhileStmt" ->
            ClassUsesOf(n.Condition, ctx) \cup ClassUsesOf(n.Body, ctx)
      [] n.k = "FunctionStmt" -> ClassUsesOfAll(n.Body, ctx)
      [] n.k \in {"ReturnStmt", "Assign"} -> ClassUsesOf(n.Value, ctx)
      [] n.k = "ClassStmt" ->
            UNION {ClassUsesOf(n.Methods[m],
                               IF n.Superclass # NilNode
                               THEN SUBCLASSCLASS ELSE CLASSCLASS) :
                      m \in DOMAIN n.Methods}
      [] n.k \in {"Binary", "Logical"} ->
            ClassUsesOf(n.Left, ctx) \cup ClassUsesOf(n.Right, ctx)
      [] n.k = "Unary" -> ClassUsesOf(n.Right, ctx)
      [] n.k = "Call" ->
            ClassUsesOf(n.Callee, ctx) \cup ClassUsesOfAll(n.Args, ctx)
      [] n.k = "Get" -> ClassUsesOf(n.Object, ctx)
      [] n.k = "Set" ->
            ClassUsesOf(n.Object, ctx) \cup ClassUsesOf(n.Value, ctx)
      [] OTHER -> {}

ClassUsesOfAll(ns, ctx) == UNION {ClassUsesOf(ns[n], ctx) : n \in DOMAIN ns}

\* the error the resolver is to report for a this or super expression
\* under a class type, "" when none
ClassUseError(expr, classType) ==
    CASE expr.k = "This" /\ classType = NONECLASS ->
            "Cannot use 'this' outside of a class method."
      [] expr.k = "Super" /\ classType = NONECLASS ->
            "Can't use 'super' outside of a class."
      [] expr.k = "Super" /\ classType = CLASSCLASS ->
            "Can't use 'super' in a class with no superclass."
      [] OTHER -> ""

\* C17: in a run's resolution, every this and super is visited with the
\* class type of the innermost class declaration around it (none, class, or
\* subclass when that class names a superclass); this is reported exactly
\* under none, super under none ("outside of a class") and under class ("in
\* a class with no superclass"); a class declaration is reported exactly
\* when it names itself as its superclass; what is reported is the run's
\* resolution error.
C17_ClassContext ==
    [][pc = "parsed"
       => \A h \in NewRecords :
             /\ h.op \in {"Resolver.VisitThis", "Resolver.VisitSuper"} =>
                   /\ <<h.expr, h.classType>>
                         \in ClassUsesOfAll(stmts, NONECLASS)
                   /\ h.reported = ClassUseError(h.expr, h.classType)
                   /\ h.reported # "" =>
                         /\ result'.resolve.kind = "resolutionError"
                         /\ result'.resolve.msg = h.reported
                         /\ result'.resolve.line = h.expr.Keyword.line
             /\ h.op = "Resolver.VisitClassStmt" =>
                   /\ h.reported <=>
                         (/\ h.superclass # NilNode
                          /\ h.superclass.Name.lexeme = h.name.lexeme)
                   /\ h.reported =>
                         /\ result'.resolve.kind = "resolutionError"
                         /\ result'.resolve.msg =
                               "A class can't inherit from itself."]_vars

\* this in a method of a class with no superclass was accepted after a
\* subclass nested in the method, whose super was accepted, and the super
\* of a later method of the outer class was reported
C17_Witness ==
    /\ pc = "exited"
    /\ result.resolve.kind = "resolutionError"
    /\ result.resolve.msg = "Can't use 'super' in a class with no superclass."
    /\ \E k1, k2, k3 \in DOMAIN History :
          /\ k1 < k2 /\ k2 < k3
          /\ History[k1].op = "Resolver.VisitSuper"
          /\ History[k1].classType = SUBCLASSCLASS
          /\ History[k1].reported = ""
          /\ History[k2].op = "Resolver.VisitThis"
          /\ History[k2].classType = CLASSCLASS
          /\ History[k2].reported = ""
          /\ History[k3].op = "Resolver.VisitSuper"
          /\ History[k3].classType = CLASSCLASS
          /\ History[k3].reported # ""

\* the class of an instance, then its superclass, and so on
RECURSIVE SuperclassChain(_)
SuperclassChain(c) ==
    IF c = NilVal THEN <<>> ELSE <<c>> \o SuperclassChain(c.Superclass)

\* the positions in the chain of the classes that define a method name
Definers(c, name) ==
    {n \in DOMAIN SuperclassChain(c) :
        name \in DOMAIN SuperclassChain(c)[n].Methods}

\* the definition of name nearest to c
NearestMethod(c, name) ==
    SuperclassChain(c)[CHOOSE n \in Definers(c, name) :
                          \A m \in Definers(c, name) : n <= m].Methods[name]

\* f is the method bound to the instance: the same declaration, with a
\* closure that binds this to the instance and nothing else and encloses
\* the closure of the method
BoundTo(f, method, inst) ==
    /\ f.t = "function"
    /\ f.Declaration = method.Declaration
    /\ f.isInitializer = method.isInitializer
    /\ interpreter.envs[f.Closure].envMap = MapPut(EmptyMap, "this", inst)
    /\ interpreter.envs[f.Closure].enclosing = method.Closure

\* C18: a property read of a value that is no instance ends in a runtime
\* error; of an instance with a field of that name, it yields the field
\* whatever the methods; otherwise it yields the nearest definition of the
\* method up the superclass chain, bound to the instance (a closure binding
\* this to it), and a call of a function runs in an environment enclosing
\* the function's closure; with neither field nor method it ends in the
\* runtime error "Undefined property".
C18_PropertyRead ==
    /\ \A h \in Records("VisitGet") :
          CASE h.obj.t # "instance" ->
                  /\ h.exit.kind = "runtimeError"
                  /\ h.exit.msg = "Only class instances have properties."
                  /\ h.exit.line = h.expr.Name.line
            [] h.expr.Name.lexeme \in DOMAIN h.fields ->
                  /\ h.exit = NoErr
                  /\ h.result = h.fields[h.expr.Name.lexeme]
            [] Definers(interpreter.instances[h.obj.ptr].Class,
                        h.expr.Name.lexeme) # {} ->
                  /\ h.exit = NoErr
                  /\ BoundTo(h.result,
                             NearestMethod(
                                 interpreter.instances[h.obj.ptr].Class,
                                 h.expr.Name.lexeme),
                             h.obj)
            [] OTHER ->
                  /\ h.exit.kind = "runtimeError"
                  /\ h.exit.msg = "Undefined property"
                  /\ h.exit.line = h.expr.Name.line
    /\ \A h \in Records("Function.Call") :
          interpreter.envs[h.newEnv].enclosing = h.fn.Closure

\* the method m extracted from the first instance printed that instance's
\* field when called after a second instance was made, the overriding k of
\* the subclass ran, the field k then hid the method, and reading z ended
\* in the runtime error
C18_Witness ==
    /\ pc = "exited"
    /\ interpreter.Stdout = <<"3", "2", "5">>
    /\ result.interpret.kind = "runtimeError"
    /\ result.interpret.msg = "Undefined property"
    /\ \E h \in Records("VisitGet") :
          /\ h.expr.Name.lexeme = "m"
          /\ h.obj = InstancePtr(1)
          /\ h.result.Declaration.Name.lexeme = "m"
          /\ interpreter.envs[h.result.Closure].envMap["this"] = InstancePtr(1)
          /\ \E c \in Records("Function.Call") : c.fn = h.result
    /\ \E h \in Records("VisitGet") :
          /\ h.expr.Name.lexeme = "k"
          /\ "k" \in DOMAIN h.fields
          /\ h.result = NumVal(5, 0)

\* the records added by a step, by their place in the history
NewIndices == DOMAIN History' \ DOMAIN History

\* the arity of a callable value: the number of parameters of a function,
\* of the nearest init up the superclass chain of a class, 0 without one
ExpectedArity(callee) ==
    CASE callee.t = "function" -> Len(callee.Declaration.Params)
      [] callee.t = "class" ->
            IF Definers(callee, "init") = {} THEN 0
            ELSE Len(NearestMethod(callee, "init").Declaration.Params)
      [] OTHER -> 0

\* C19: when the callee and the arguments of a call have been evaluated,
\* the call ends in a runtime error exactly when the callee is not callable
\* ("Can only call functions and classes.") or the number of arguments is
\* not its arity ("Expected ... args but got ..."), the arity being the
\* parameter count of a function and that of the nearest init up the
\* superclass chain of a class, 0 without one; after such an error no
\* function body is begun in the statement, and the error ends the run.
C19_CallChecks ==
    [][pc = "resolved"
       => \A k \in NewIndices :
             History'[k].op = "VisitCall.check" =>
                /\ History'[k].exit =
                      (IF ~IsCallable(History'[k].callee)
                       THEN runtimeError(History'[k].expr.Paren.line,
                                "Can only call functions and classes.")
                       ELSE IF Len(History'[k].args)
                                  # ExpectedArity(History'[k].callee)
                       THEN runtimeError(History'[k].expr.Paren.line,
                                         "Expected args but got")
                       ELSE NoErr)
                /\ History'[k].exit # NoErr =>
                      /\ \A n \in NewIndices :
                            (n > k /\ History'[n].op = "Function.Call")
                               => History'[n].newEnv <= History'[k].envs
                      /\ Len(interpreter'.envs) = History'[k].envs
                      /\ result'.interpret = History'[k].exit]_vars

\* the subclass that inherits an initializer with one parameter was called
\* with one argument, the class with no initializer with none, and the call
\* of the subclass with no argument ended in the runtime error
C19_Witness ==
    /\ pc = "exited"
    /\ interpreter.Stdout = <<"1", "2">>
    /\ result.interpret.kind = "runtimeError"
    /\ result.interpret.msg = "Expected args but got"
    /\ \E h \in Records("VisitCall.check") :
          /\ h.callee.t = "class" /\ h.callee.Name = "B"
          /\ Len(h.args) = 1 /\ h.exit = NoErr
    /\ \E h \in Records("VisitCall.check") :
          /\ h.callee.t = "class" /\ h.callee.Name = "C"
          /\ h.args = <<>> /\ h.exit = NoErr
    /\ \E h \in Records("VisitCall.check") :
          /\ h.callee.t = "class" /\ h.callee.Name = "B"
          /\ h.args = <<>> /\ h.exit.kind = "runtimeError"

\* C20: an assignment whose node has no depth in the resolution table
\* ends in the runtime error "Undefined (global) variable ... in
\* assignment" and leaves the bindings of the global environment as they
\* were when the global environment has no binding for the name, and
\* otherwise ends normally with the binding of the name in the global
\* environment updated to the value, whatever the current environment.
C20_GlobalAssign ==
    \A h \in Records("VisitAssign") :
       ~h.local =>
          IF h.expr.Name.lexeme \notin DOMAIN h.globalsBefore
          THEN /\ h.exit = runtimeError(h.expr.Name.line,
                              "Undefined (global) variable in assignment")
               /\ h.globalsAfter = h.globalsBefore
          ELSE /\ h.exit = NoErr
               /\ h.globalsAfter =
                     MapPut(h.globalsBefore, h.expr.Name.lexeme, h.value)

\* C21: whatever the tokens, Parse returns statements and no error, or a
\* parseError with a line and a message, also when the error is found at
\* the first token and when the tokens end in the middle of a construct.
C21_ParseReturns ==
    [][(pc = "idle" /\ result'.scan = NoErr)
       => \/ result'.parse = NoErr
          \/ /\ result'.parse.kind = "parseError"
             /\ result'.parse.line \in Nat
             /\ result'.parse.msg # ""
             /\ stmts' = <<>>]_vars

\* C22: when a script file has been run, the had-error flag is set and the
\* process has ended with a non-zero status if a parse, resolution or
\* runtime error was reported, and the process has ended with status zero
\* if the run met no error.
C22_FileExitStatus ==
    (mode = "file" /\ pc \in {"exited", "crashed"})
       => /\ console # <<>> => (hadError /\ pc = "crashed")
          /\ (console = <<>> /\ result = NoResult) => pc = "exited"

\* C23: when ScanTokens fails, on a character that begins no token or on a
\* string that is not closed, the error it raises holds the line the
\* scanner is at, and the parser is given no tokens: nothing is parsed.
C23_ScanErrorLine ==
    [][(pc = "idle" /\ result'.scan # NoErr)
       => /\ result'.scan.msg \in {"unexpected character",
                                   "Unterminated string starting on line"}
          /\ result'.scan.lines = {result'.scan.at}
          /\ result'.parse = NoErr
          /\ stmts' = <<>>]_vars

\* the statement a for loop is to stand for, given the record of its parts
ForCondition(h) ==
    IF h.condition # NilNode THEN h.condition ELSE Literal(BoolVal(TRUE))

ForBody(h) ==
    IF h.increment # NilNode
    THEN BlockStmt(<<h.body, ExprStmt(h.increment)>>)
    ELSE h.body

ForShape(h) ==
    IF h.initializer # NilNode
    THEN BlockStmt(<<h.initializer, WhileStmt(ForCondition(h), ForBody(h))>>)
    ELSE WhileStmt(ForCondition(h), ForBody(h))

\* the Variable and Assign nodes of an expression that name a variable
RECURSIVE RefsOf(_, _)
RefsOf(e, name) ==
    CASE e = NilNode -> {}
      [] e.k = "Variable" -> IF e.Name.lexeme = name THEN {e} ELSE {}
      [] e.k = "Assign" ->
            (IF e.Name.lexeme = name THEN {e} ELSE {})
               \cup RefsOf(e.Value, name)
      [] e.k \in {"Binary", "Logical"} ->
            RefsOf(e.Left, name) \cup RefsOf(e.Right, name)
      [] e.k = "Unary" -> RefsOf(e.Right, name)
      [] e.k = "Grouping" -> RefsOf(e.Expression, name)
      [] e.k = "Call" ->
            RefsOf(e.Callee, name)
               \cup UNION {RefsOf(e.Args[n], name) : n \in DOMAIN e.Args}
      [] e.k = "Get" -> RefsOf(e.Object, name)
      [] e.k = "Set" -> RefsOf(e.Object, name) \cup RefsOf(e.Value, name)
      [] OTHER -> {}

\* the references to a variable in the print and expression statements that
\* are the statements of a block which does not declare the name itself
BlockRefs(b, name) ==
    IF \E n \in DOMAIN b.Statements :
          b.Statements[n].k \in {"VariableStmt", "FunctionStmt", "ClassStmt"}
    THEN {}
    ELSE UNION {RefsOf(b.Statements[n].Expression, name) :
                   n \in {m \in DOMAIN b.Statements :
                             b.Statements[m].k \in {"ExprStmt", "PrintStmt"}}}

\* every node of the set is in the resolution table with the depth
DepthIs(nodes, depth) ==
    \A e \in nodes :
       /\ e \in DOMAIN interpreter.localDistance
       /\ interpreter.localDistance[e] = depth

C25_AssignmentParsing ==
    \A h \in Records("assignment") :
       CASE h.lValue.k = "Variable" ->
               /\ h.err = NoErr
               /\ h.result = Assign(h.lValue.Name, h.rValue)
         [] h.lValue.k = "Get" ->
               /\ h.err = NoErr
               /\ h.result = Set(h.lValue.Object, h.lValue.Name, h.rValue)
         [] OTHER ->
               /\ h.err.kind = "parseError"
               /\ h.err.msg = "Invalid l-value in assignment."
               /\ h.err.line = h.equals.line

\* the number of newline characters among the first n of the source
Newlines(src, n) == Cardinality({k \in 1..n : src[k] = "\n"})

\* C26: every token ScanTokens emits carries the line 1 + the number of
\* newline characters of the source up to the end of the token (a string of
\* several lines the line of its closing quote, and the newline that ends a
\* comment is counted); the lines of the tokens never decrease in the order
\* of emission, and no EOF token is emitted.
C26_TokenLines ==
    \A h \in Records("ScanTokens") :
       /\ Len(h.ends) = Len(h.tokens)
       /\ \A n \in DOMAIN h.tokens :
             /\ h.tokens[n].line = 1 + Newlines(h.src, h.ends[n])
             /\ h.tokens[n].type # "EOF"
             /\ n > 1 => h.tokens[n - 1].line <= h.tokens[n].line

\* the string of two lines carries line 2, the line of its closing quote,
\* and the statement after the comment carries line 3
C26_Witness ==
    /\ pc = "exited"
    /\ interpreter.Stdout = <<"a\nb", "2">>
    /\ \E h \in Records("ScanTokens") :
          /\ Len(h.tokens) = 6
          /\ h.tokens[1].line = 1
          /\ h.tokens[2].type = "STRING" /\ h.tokens[2].line = 2
          /\ h.tokens[3].line = 2
          /\ h.tokens[4].type = "PRINT" /\ h.tokens[4].line = 3
          /\ h.ends[6] = Len(h.src)

\* C27: an Assign is a key of the resolution table whatever its value is:
\* neither resolving nor evaluating an assignment ends in a panic of the Go
\* runtime, an assignment ends normally or in a runtime error, and one that
\* ends normally with no depth in the table has stored the value in the
\* global environment.
C27_AssignIsKey ==
    /\ result.resolve.kind # "panic"
    /\ \A h \in Records("VisitAssign") :
          /\ h.exit.kind \in {"none", "runtimeError"}
          /\ (h.exit = NoErr /\ ~h.local) =>
                h.globalsAfter[h.expr.Name.lexeme] = h.value

\* C28: a variable read in the top-level code of a line, where the current
\* environment is the global one and the resolver records no depth, is
\* never looked up through the resolution table, whatever earlier lines run
\* on the interpreter have recorded: it is read from the global
\* environment, and ends normally or in the runtime error of an undefined
\* global variable.
C28_TopLevelReadsGlobal ==
    [][pc = "resolved"
       => \A k \in NewIndices :
             (/\ History'[k].op = "lookup"
              /\ History'[k].expr.k = "Variable"
              /\ History'[k].env = interpreter'.globals)
             => /\ ~History'[k].local
                /\ History'[k].target = interpreter'.globals
                /\ History'[k].exit \in {"none", "runtimeError"}]_vars

\* the records of the Resolve that ended with the record at k: those after
\* the record of its beginning
ResolveBegin(k) ==
    CHOOSE j \in 1..(k - 1) :
       /\ History[j].op = "Resolve.begin"
       /\ \A n \in (j + 1)..(k - 1) : History[n].op # "Resolve.begin"

ScopeOps(k, op) ==
    {n \in (ResolveBegin(k) + 1)..(k - 1) : History[n].op = op}

\* the records of the endScope that removed the scope begun at b
EndsOf(k, b) ==
    {e \in ScopeOps(k, "endScope") :
        /\ e > b
        /\ History[e].begun = History[b].begun
        /\ History[e].depth = History[b].depth
        /\ History[e].lines = {}}

\* C29: when Resolve has returned without error, no scope is left and the
\* current function and class type are those of before the call (none);
\* every scope begun, for a block, a function, or the super or this of a
\* class, was ended exactly once, and a scope begun later was ended earlier.
C29_ScopesBalanced ==
    \A k \in DOMAIN History :
       (History[k].op = "Resolve" /\ History[k].err = NoErr)
       => /\ History[k].scopes = 0
          /\ History[k].functionType = NONEFUNC
          /\ History[k].classType = NONECLASS
          /\ Cardinality(ScopeOps(k, "endScope"))
                = Cardinality(ScopeOps(k, "beginScope"))
          /\ \A b \in ScopeOps(k, "beginScope") :
                /\ Cardinality(EndsOf(k, b)) = 1
                /\ \A b2 \in ScopeOps(k, "beginScope") :
                      b < b2 =>
                         \A e \in EndsOf(k, b), e2 \in EndsOf(k, b2) :
                            e2 < e \/ e < b2

\* a program with a block, functions and a class with a superclass has been
\* resolved without error: scopes were begun inside one another and none is
\* left
C29_Witness ==
    /\ pc = "resolved"
    /\ History[Len(History)].op = "Resolve"
    /\ History[Len(History)].err = NoErr
    /\ History[Len(History)].scopes = 0
    /\ Cardinality(ScopeOps(Len(History), "beginScope")) >= 5
    /\ \E b \in ScopeOps(Len(History), "beginScope") : History[b].depth >= 3
    /\ \E n \in ScopeOps(Len(History), "Resolver.VisitSuper") : TRUE

\* the class values a program can reach: those bound in an environment and
\* the classes of the instances
ClassValues ==
    {v \in UNION {{interpreter.envs[e].envMap[name] :
                      name \in DOMAIN interpreter.envs[e].envMap} :
                  e \in DOMAIN interpreter.envs} : v.t = "class"}
       \cup {interpreter.instances[n].Class :
                n \in DOMAIN interpreter.instances}

\* the names of the methods defined on the chain of a class
MethodNames(c) ==
    UNION {DOMAIN SuperclassChain(c)[n].Methods :
              n \in DOMAIN SuperclassChain(c)}

\* C30: the superclass chain of every class value a program has made is
\* finite, no longer than the number of class declarations executed plus
\* the empty class it ends in, and never comes back to a class it has
\* passed; findMethod finds exactly the names defined on the chain, the
\* nearest definition of each, and reports not-found for any other name.
C30_SuperclassChain ==
    \A c \in ClassValues :
       /\ Len(SuperclassChain(c))
             <= Cardinality({k \in DOMAIN History :
                                History[k].op = "VisitClassStmt"}) + 1
       /\ SuperclassChain(c)[Len(SuperclassChain(c))]
             = [t |-> "class", Name |-> "", Methods |-> <<>>,
                Superclass |-> [t |-> "nil"]]
       /\ \A m, n \in DOMAIN SuperclassChain(c) :
             m # n => SuperclassChain(c)[m] # SuperclassChain(c)[n]
       /\ \A name \in MethodNames(c) :
             /\ findMethod(c, name).found
             /\ findMethod(c, name).method = NearestMethod(c, name)
       /\ \A name \in {"nowhere", "z", "init"} \ MethodNames(c) :
             ~findMethod(c, name).found

\* the name A was declared again as a subclass of B, itself a subclass of
\* the old A: the chain of the new class passes B and the old class A and
\* ends in the empty class, the method of the old class was found through
\* it, and a name defined nowhere was reported as undefined
C30_Witness ==
    /\ pc = "exited"
    /\ interpreter.Stdout = <<"1", "2">>
    /\ result.interpret.kind = "runtimeError"
    /\ result.interpret.msg = "Undefined property"
    /\ \E c \in ClassValues :
          /\ c.Name = "A"
          /\ Len(SuperclassChain(c)) = 4
          /\ SuperclassChain(c)[2].Name = "B"
          /\ SuperclassChain(c)[3].Name = "A"
          /\ MethodNames(c) = {"m", "n"}
          /\ ~findMethod(c, "z").found

====
